---- MODULE Spec2Model ----
(***************************************************************************)
(* A model of feishu-md-exporter: the discovery crawl (discoverDocuments),  *)
(* the structure helpers (resourceId, mergeParentRelation,                 *)
(* serializeRelations, buildDocumentTree), the URL parser (utils/url.ts)   *)
(* and the request scheduling of FeishuClient (client.ts).                 *)
(***************************************************************************)
EXTENDS Integers, Sequences, FiniteSets, TLC

(***************************************************************************)
(* Bounds of the model.                                                    *)
(***************************************************************************)
MaxDepthBound == 2      \* options.maxDepth is drawn from 0..MaxDepthBound
MaxDocsBound == 2       \* options.maxDocs is drawn from 0..MaxDocsBound
MaxPages == 2           \* pages of one paginated listing

Undef == "undefined"    \* JavaScript's undefined
NoId == <<>>            \* undefined, where an id is expected

(***************************************************************************)
(* URLs.  A URL is the record of the parts parseFeishuResource reads: the  *)
(* host, the first path segment and the second path segment.  BadToken is  *)
(* a second segment that new URL() leaves out of the path (for instance    *)
(* "?x"), so that the path has one segment only.                           *)
(***************************************************************************)
FeishuHost == "my.feishu.cn"
OtherHost == "example.com"
BadToken == "?"
Tokens == {"a", "b"}
RawKinds == {"docx", "wiki", "sheets"}
FEISHU_PATH_KINDS == {"docx", "wiki", "sheets", "sheet", "base", "bitable", "slides"}

MakeUrl(host, rawKind, token) == [host |-> host, rawKind |-> rawKind, token |-> token]

isFeishuHost(hostname) == hostname = FeishuHost

normalizeKind(kind) ==
    CASE kind = "docx" -> "docx"
      [] kind = "wiki" -> "wiki"
      [] kind \in {"sheet", "sheets"} -> "sheet"
      [] kind \in {"base", "bitable"} -> "base"
      [] kind = "slides" -> "slides"
      [] OTHER -> "unknown"

NoResource == [kind |-> "null"]

\* segments[0]?.toLowerCase(), on the first segments drawn
lowerKind(segment) == IF segment = "DOCX" THEN "docx" ELSE segment

parseFeishuResource(input) ==
    LET rawKind == lowerKind(input.rawKind)
    IN IF ~isFeishuHost(input.host) THEN NoResource
       ELSE IF input.token = BadToken THEN NoResource
       ELSE IF rawKind \notin FEISHU_PATH_KINDS THEN NoResource
       ELSE [kind |-> normalizeKind(rawKind),
             token |-> input.token,
             url |-> MakeUrl(input.host, rawKind, input.token)]

(***************************************************************************)
(* Structure helpers.  An id is the string kind:token, kept as the tuple   *)
(* of its three parts; a relation is the string parent=>child, kept as the *)
(* concatenation of the two ids around the "=>" part.                      *)
(***************************************************************************)
resourceId(kind, token) == <<kind, ":", token>>

mapWikiObjectKind(kind) ==
    CASE kind \in {"docx", "doc"} -> "docx"
      [] kind \in {"sheet", "sheets"} -> "sheet"
      [] kind \in {"bitable", "base"} -> "base"
      [] kind = "slides" -> "slides"
      [] kind = "wiki" -> "wiki"
      [] OTHER -> "unknown"

Range(s) == {s[i] : i \in 1..Len(s)}

\* Set.add on a Set kept in insertion order
SetAdd(s, x) == IF x \in Range(s) THEN s ELSE Append(s, x)

RelationKey(parentId, childId) == parentId \o <<"=>">> \o childId

\* mergeParentIds, had it left out the includes() test
mergeParentIds_NoIncludes(parentIds, parentId) ==
    IF parentId = NoId THEN parentIds
    ELSE Append(parentIds, parentId)

\* mergeParentRelation, as the pair of its two effects
mergeParentIds(parentIds, parentId) ==
    IF parentId = NoId THEN parentIds
    ELSE IF parentId \in Range(parentIds) THEN parentIds
    ELSE Append(parentIds, parentId)

mergeRelations(rels, itemId, parentId) ==
    IF parentId = NoId THEN rels
    ELSE SetAdd(rels, RelationKey(parentId, itemId))

\* String.prototype.split("=>"): the pieces between the "=>" parts
RECURSIVE SplitArrow(_, _, _)
SplitArrow(s, i, piece) ==
    IF i > Len(s) THEN <<piece>>
    ELSE IF s[i] = "=>" THEN <<piece>> \o SplitArrow(s, i + 1, <<>>)
    ELSE SplitArrow(s, i + 1, Append(piece, s[i]))

serializeRelations(rels) ==
    [i \in 1..Len(rels) |->
        LET parts == SplitArrow(rels[i], 1, <<>>)
        IN [parentId |-> parts[1],
            childId |-> IF Len(parts) >= 2 THEN parts[2] ELSE NoId]]

RECURSIVE ChildrenOf(_, _, _)
\* childrenByParent.get(id) || [], the map being built from the relation list
ChildrenOf(relationList, documentIdSet, id) ==
    IF relationList = <<>> THEN <<>>
    ELSE LET r == Head(relationList)
             rest == ChildrenOf(Tail(relationList), documentIdSet, id)
         IN IF r.parentId \in documentIdSet /\ r.childId \in documentIdSet
               /\ r.parentId = id
            THEN <<r.childId>> \o rest
            ELSE rest

RECURSIVE toTreeNode_Late(_, _, _, _)
\* toTreeNode, had it cut a cycle one level late: the node met again keeps its children
toTreeNode_Late(id, relationList, documentIdSet, trail) ==
    LET kids == ChildrenOf(relationList, documentIdSet, id) IN
    IF id \in trail
    THEN [id |-> id,
          children |-> [i \in 1..Len(kids) |-> [id |-> kids[i], children |-> <<>>]]]
    ELSE [id |-> id,
          children |-> [i \in 1..Len(kids) |->
              toTreeNode_Late(kids[i], relationList, documentIdSet, trail \cup {id})]]

RECURSIVE toTreeNode(_, _, _, _)
toTreeNode(id, relationList, documentIdSet, trail) ==
    IF id \in trail THEN [id |-> id, children |-> <<>>]
    ELSE LET nextTrail == trail \cup {id}
             kids == ChildrenOf(relationList, documentIdSet, id)
         IN [id |-> id,
             children |-> [i \in 1..Len(kids) |->
                 toTreeNode(kids[i], relationList, documentIdSet, nextTrail)]]

\* the tree, had it kept the roots without their children
buildDocumentTree_RootsOnly(documentIds, relationList) ==
    LET documentIdSet == Range(documentIds)
        childIds == {r.childId : r \in
            {x \in Range(relationList) :
                x.parentId \in documentIdSet /\ x.childId \in documentIdSet}}
        IsRoot(id) == id \notin childIds
        roots == SelectSeq(documentIds, IsRoot)
    IN [i \in 1..Len(roots) |-> [id |-> roots[i], children |-> <<>>]]

buildDocumentTree(documentIds, relationList) ==
    LET documentIdSet == Range(documentIds)
        childIds == {r.childId : r \in
            {x \in Range(relationList) :
                x.parentId \in documentIdSet /\ x.childId \in documentIdSet}}
        IsRoot(id) == id \notin childIds
        roots == SelectSeq(documentIds, IsRoot)
    IN [i \in 1..Len(roots) |-> toTreeNode(roots[i], relationList, documentIdSet, {})]

(***************************************************************************)
(* What the remote service can answer.  A paginated listing is answered by *)
(* a run of pages; the run ends with the first page that fails, reports no *)
(* more pages, or supplies no next-page token.                             *)
(***************************************************************************)
Titles == {Undef, "T"}
\* the canonical URLs documents link to
LinkUrls == {MakeUrl(FeishuHost, "docx", t) : t \in Tokens}
            \cup {MakeUrl(FeishuHost, "wiki", "a"), MakeUrl(FeishuHost, "sheets", "a")}
\* extractFeishuLinks of one page, or of the raw content
PageLinks == {<<>>} \cup {<<u>> : u \in LinkUrls}
\* normalized child nodes of one page
ChildNodes == {<<>>} \cup {<<[nodeToken |-> t, title |-> ti]>> : t \in Tokens, ti \in Titles}

\* a response: ok is FALSE when the request rejected (after its retries)
Page(items, more, token) ==
    [ok |-> TRUE, items |-> items, has_more |-> more, page_token |-> token]
FailedPage == [ok |-> FALSE, items |-> <<>>, has_more |-> FALSE, page_token |-> Undef]
LastPages(Items) ==
    {FailedPage} \cup {Page(i, FALSE, Undef) : i \in Items}
    \cup {Page(i, TRUE, Undef) : i \in Items}
MorePages(Items) == {Page(i, TRUE, "p") : i \in Items}

\* the runs of at most n pages
PageRuns(Items, n) ==
    UNION {{r \in [1..k -> LastPages(Items) \cup MorePages(Items)] :
               /\ r[k] \in LastPages(Items)
               /\ \A i \in 1..(k - 1) : r[i] \in MorePages(Items)} : k \in 1..n}

\* the node getWikiNode resolves to
ObjPairs == {<<Undef, Undef>>, <<"file", "a">>, <<"sheet", "a">>, <<"docx", BadToken>>}
            \cup {<<ty, t>> : ty \in {"docx", "wiki"}, t \in Tokens}
WikiNodes == {[title |-> ti, objType |-> o[1], objToken |-> o[2], spaceId |-> sp] :
                 ti \in Titles, o \in ObjPairs, sp \in {Undef, "s"}}
\* the title of the document metadata, and the links of the raw content
TitleResponses == {[ok |-> TRUE, title |-> ti] : ti \in Titles} \cup {[ok |-> FALSE, title |-> Undef]}
RawResponses == {[ok |-> TRUE, items |-> l] : l \in PageLinks} \cup {[ok |-> FALSE, items |-> <<>>]}

\* the n-th smallest element of a set of numbers
Nth(S, n) == CHOOSE i \in S : Cardinality({j \in S : j <= i}) = n

\* Array.from(new Set(s)): the first occurrences of s, in order
Dedupe(s) ==
    LET keep == {i \in 1..Len(s) : \A j \in 1..(i - 1) : s[j] # s[i]}
    IN [n \in 1..Cardinality(keep) |-> s[Nth(keep, n)]]

\* the concatenation of the sequences ss[1], ..., ss[k]
Flatten(ss, k) ==
    LET at == UNION {{<<i, j>> : j \in 1..Len(ss[i])} : i \in 1..k}
        Before(p, q) == p[1] < q[1] \/ (p[1] = q[1] /\ p[2] <= q[2])
        Pick(n) == CHOOSE q \in at : Cardinality({p \in at : Before(p, q)}) = n
    IN [n \in 1..Cardinality(at) |-> ss[Pick(n)[1]][Pick(n)[2]]]

\* a listing loop stops at the first page that rejects, reports no more pages or
\* supplies no page token
PageStops(response) == ~response.ok \/ ~response.has_more \/ response.page_token = Undef
PagesRequested(pages) ==
    LET stops == {i \in 1..Len(pages) : PageStops(pages[i])}
    IN IF stops = {} THEN Len(pages) ELSE Nth(stops, 1)
PageItems(pages) == [i \in 1..Len(pages) |-> pages[i].items]

(***************************************************************************)
(* FeishuClient as the crawl sees it: each request either resolves to its  *)
(* data or rejects.  calls/failed count the requests made and rejected.    *)
(***************************************************************************)
getDocumentTitle(titleRes) ==
    [title |-> IF ~titleRes.ok THEN Undef ELSE titleRes.title,
     calls |-> 1, failed |-> IF ~titleRes.ok THEN 1 ELSE 0]

\* the for (;;) loop of collectDocumentLinks: a rejected page adds nothing and
\* asks for the fallback
collectPages(pages) ==
    LET k == PagesRequested(pages)
        rejected == ~pages[k].ok
    IN [links |-> Dedupe(Flatten(PageItems(pages), k)),
        fallback |-> rejected,
        calls |-> k,
        failed |-> IF rejected THEN 1 ELSE 0]

collectDocumentLinks(pages, rawRes) ==
    LET listed == collectPages(pages) IN
    IF listed.fallback \/ listed.links = <<>>
    THEN [links |-> IF ~rawRes.ok THEN listed.links
                    ELSE Dedupe(listed.links \o rawRes.items),
          calls |-> listed.calls + 1,
          failed |-> listed.failed + (IF ~rawRes.ok THEN 1 ELSE 0)]
    ELSE [links |-> listed.links, calls |-> listed.calls, failed |-> listed.failed]

discoverFromDocx(titleRes, pages, rawRes) ==
    LET t == getDocumentTitle(titleRes)
        l == collectDocumentLinks(pages, rawRes)
    IN [threw |-> FALSE, title |-> t.title, links |-> l.links,
        calls |-> t.calls + l.calls, failed |-> t.failed + l.failed]

\* the for (;;) loop of listWikiChildNodes: a rejected page rejects the call
listWikiChildNodes(pages) ==
    LET k == PagesRequested(pages) IN
    IF ~pages[k].ok THEN [threw |-> TRUE, nodes |-> <<>>, calls |-> k]
    ELSE [threw |-> FALSE, nodes |-> Flatten(PageItems(pages), k), calls |-> k]

\* every answer the client can give the crawl for one document, one child listing
DocxDiscoveries ==
    {discoverFromDocx(t, p, r) :
        t \in TitleResponses, p \in PageRuns(PageLinks, MaxPages), r \in RawResponses}
ChildListings == {listWikiChildNodes(p) : p \in PageRuns(ChildNodes, MaxPages)}

(***************************************************************************)
(* discoverDocuments.                                                      *)
(***************************************************************************)
VARIABLES
    pc,          \* "start", "loop", "return", "done", "thrown"
    rootUrl,     \* options.url
    maxDepth,    \* options.maxDepth
    maxDocs,     \* options.maxDocs
    queue,       \* QueueItem[]
    documents,   \* Map<string, DocumentItem>, in insertion order
    relations,   \* Set<string>, in insertion order
    warnings,    \* string[]
    sequence,    \* the dequeue counter
    lastEvent,   \* the terminal progress event of the last iteration
    lastCalls,   \* the API requests of the last iteration: made, rejected
    fetchLog,    \* the ids the client was asked about, in order
    progress,    \* the progress events of the last iteration, as onProgress got them
    result       \* the DiscoverResult returned

crawlVars == <<pc, rootUrl, maxDepth, maxDocs, queue, documents, relations, warnings,
               sequence, lastEvent, lastCalls, fetchLog, progress, result>>

\* buildDocumentTree, applied to a document list and a relation list
VARIABLES
    treePc,         \* "idle", "input", "built"
    treeDocuments,  \* documents.map(item => item.id)
    treeRelations,  \* DocumentRelation[]
    tree            \* DocumentTreeNode[]

treeVars == <<treePc, treeDocuments, treeRelations, tree>>

\* mergeParentRelation, applied call after call
VARIABLES
    mergePc,        \* "idle", "calls"
    itemList,       \* the items created: id and parentIds, in creation order
    relationSet,    \* Set<string>, in insertion order
    mergeCalls      \* the (item id, parentId) pairs passed so far, in order

mergeVars == <<mergePc, itemList, relationSet, mergeCalls>>

\* FeishuClient: the limiter, the requests and the clock
VARIABLES
    chains,         \* the two async call chains of discoverFromDocx
    limiterQueue,   \* the jobs the limiter holds back, in submission order
    tokenCache,     \* this.tokenCache: "none" or "cached"
    inFlight,       \* the HTTP calls started and not yet answered
    sinceLaunch,    \* time since the limiter last launched a job
    sinceHttp,      \* time since an HTTP call was last started
    launchGapOk,    \* the last launch came no sooner than minTime after the one before
    httpGapOk,      \* the last HTTP start came no sooner than minTime after the one before
    lastHttp        \* the last HTTP call started: which call, and what it came after

clientVars == <<chains, limiterQueue, tokenCache, inFlight, sinceLaunch, sinceHttp,
                launchGapOk, httpGapOk, lastHttp>>

\* one call of a pure function: sanitizePathSegment, buildExportPlan
VARIABLES
    called,         \* "idle", the function's name before the call, "returned" after it
    args,           \* the arguments
    returned        \* the value returned
callVars == <<called, args, returned>>

\* exportMarkdown
VARIABLES
    exportPc,       \* "idle", "start", "loop", "done", "thrown"
    manifest,       \* the manifest file: whether it parses, its documents, its tree
    plan,           \* buildExportPlan(manifest, documentsById)
    markdownCache,  \* Map<string, string>, as its entries in insertion order
    disk,           \* the target paths that hold a file
    exportLog,      \* the client calls and file operations made, in order
    outcomes,       \* the terminal progress event of each entry processed
    exportWarnings, \* warnings
    written,
    skipped
exportVars == <<exportPc, manifest, plan, markdownCache, disk, exportLog, outcomes,
                exportWarnings, written, skipped>>

CallIdle == called = "idle" /\ args = <<>> /\ returned = <<>>
ExportIdle ==
    /\ exportPc = "idle"
    /\ manifest = <<>>
    /\ plan = <<>>
    /\ markdownCache = <<>>
    /\ disk = {}
    /\ exportLog = <<>>
    /\ outcomes = <<>>
    /\ exportWarnings = <<>>
    /\ written = 0
    /\ skipped = 0
laterVars == <<callVars, exportVars>>
LaterIdle == CallIdle /\ ExportIdle

notCrawlVars == <<treeVars, mergeVars, clientVars, laterVars>>

\* the parts of the program a specification leaves out stay as they are here
TreeIdle ==
    /\ treePc = "idle"
    /\ treeDocuments = <<>>
    /\ treeRelations = <<>>
    /\ tree = <<>>

MergeIdle ==
    /\ mergePc = "idle"
    /\ itemList = <<>>
    /\ relationSet = <<>>
    /\ mergeCalls = <<>>

ClientIdle ==
    /\ chains = <<>>
    /\ limiterQueue = <<>>
    /\ tokenCache = "none"
    /\ inFlight = 0
    /\ sinceLaunch = 0
    /\ sinceHttp = 0
    /\ launchGapOk = TRUE
    /\ httpGapOk = TRUE
    /\ lastHttp = [call |-> "none", after |-> "none"]

RootUrls == {MakeUrl(FeishuHost, k, "a") : k \in RawKinds}
            \cup {MakeUrl(OtherHost, "docx", "a"), MakeUrl(FeishuHost, "docx", BadToken)}

NoEvent == [status |-> "none", sequence |-> 0, id |-> NoId, title |-> Undef, depth |-> 0]
NoUrl == MakeUrl("", "", "")
NoResult == [total |-> -1]
Warning(text, url) == [text |-> text, url |-> url]
NoCalls == [made |-> 0, failed |-> 0]

CrawlInit ==
    /\ pc = "start"
    /\ rootUrl \in RootUrls
    /\ maxDepth \in 0..MaxDepthBound
    /\ maxDocs \in 0..MaxDocsBound
    /\ queue = <<>>
    /\ documents = <<>>
    /\ relations = <<>>
    /\ warnings = <<>>
    /\ sequence = 0
    /\ lastEvent = NoEvent
    /\ lastCalls = NoCalls
    /\ fetchLog = <<>>
    /\ progress = <<>>
    /\ result = NoResult
    /\ TreeIdle
    /\ MergeIdle
    /\ ClientIdle
    /\ LaterIdle

DocIds(docs) == [i \in 1..Len(docs) |-> docs[i].id]
\* the lookup, had it built its key with another separator than resourceId
HasDoc_OtherKey(docs, id) == \E i \in 1..Len(docs) : docs[i].id = <<id[1], "/", id[3]>>
HasDoc(docs, id) == \E i \in 1..Len(docs) : docs[i].id = id
DocIndex(docs, id) == CHOOSE i \in 1..Len(docs) : docs[i].id = id

QueueItem(url, depth, parentId, titleHint) ==
    [url |-> url, depth |-> depth, parentId |-> parentId, titleHint |-> titleHint]

Event(status, id, title, depth) ==
    [status |-> status, sequence |-> sequence + 1, id |-> id, title |-> title, depth |-> depth]

\* lines 268-279: the event, with the two counts read when it is emitted
emitProgress(docs, warns, event) ==
    [status |-> event.status, sequence |-> event.sequence,
     discovered |-> Len(docs), warnings |-> Len(warns)]

\* the iteration, had it emitted no processing event
Emits_TerminalOnly == progress' = <<emitProgress(documents', warnings', lastEvent')>>
\* lines 35-43 and the emitProgress call that ends the iteration
Emits ==
    progress' = <<emitProgress(documents, warnings,
                               [status |-> "processing", sequence |-> sequence + 1]),
                  emitProgress(documents', warnings', lastEvent')>>

\* lines 20-29: parse the root, seed the queue
Start ==
    /\ pc = "start"
    /\ LET root == parseFeishuResource(rootUrl) IN
       IF root = NoResource
       THEN /\ pc' = "thrown"
            /\ UNCHANGED queue
       ELSE /\ pc' = "loop"
            /\ queue' = <<QueueItem(root.url, 0, NoId, Undef)>>
    /\ UNCHANGED <<rootUrl, maxDepth, maxDocs, documents, relations, warnings, sequence,
                   lastEvent, lastCalls, fetchLog, progress, result>>
    /\ UNCHANGED notCrawlVars

Dequeued == pc = "loop" /\ queue # <<>>
next == Head(queue)
parsed == parseFeishuResource(next.url)
nextId == resourceId(parsed.kind, parsed.token)

\* lines 46-58
StepInvalid ==
    /\ Dequeued
    /\ parsed = NoResource
    /\ queue' = Tail(queue)
    /\ sequence' = sequence + 1
    /\ warnings' = Append(warnings, Warning("Skip invalid feishu url", next.url))
    /\ lastEvent' = Event("warning", NoId, Undef, next.depth)
    /\ lastCalls' = NoCalls
    /\ UNCHANGED <<pc, rootUrl, maxDepth, maxDocs, documents, relations, fetchLog, result>>
    /\ UNCHANGED notCrawlVars
    /\ Emits

\* StepSkip, had it asked the client about the resource again
StepSkip_Refetch ==
    /\ Dequeued
    /\ parsed # NoResource
    /\ HasDoc(documents, nextId)
    /\ LET i == DocIndex(documents, nextId)
           existing == documents[i]
       IN /\ documents' = [documents EXCEPT ![i].parentIds =
                               mergeParentIds(existing.parentIds, next.parentId),
                                            ![i].depth = next.depth]
          /\ relations' = mergeRelations(relations, existing.id, next.parentId)
          /\ lastEvent' = Event("skip", nextId, existing.title, next.depth)
    /\ queue' = Tail(queue)
    /\ sequence' = sequence + 1
    /\ lastCalls' = [made |-> 1, failed |-> 0]
    /\ fetchLog' = Append(fetchLog, nextId)
    /\ UNCHANGED <<pc, rootUrl, maxDepth, maxDocs, warnings, result>>
    /\ UNCHANGED notCrawlVars
    /\ Emits

\* lines 60-75
StepSkip ==
    /\ Dequeued
    /\ parsed # NoResource
    /\ HasDoc(documents, nextId)
    /\ LET i == DocIndex(documents, nextId)
           existing == documents[i]
       IN /\ documents' = [documents EXCEPT ![i].parentIds =
                               mergeParentIds(existing.parentIds, next.parentId)]
          /\ relations' = mergeRelations(relations, existing.id, next.parentId)
          /\ lastEvent' = Event("skip", nextId, existing.title, next.depth)
    /\ queue' = Tail(queue)
    /\ sequence' = sequence + 1
    /\ lastCalls' = NoCalls
    /\ UNCHANGED <<pc, rootUrl, maxDepth, maxDocs, warnings, fetchLog, result>>
    /\ UNCHANGED notCrawlVars
    /\ Emits

CapReached_Off(size, cap) == size > cap
CapReached(size, cap) == size >= cap

\* lines 77-90
StepCap ==
    /\ Dequeued
    /\ parsed # NoResource
    /\ ~HasDoc(documents, nextId)
    /\ CapReached(Len(documents), maxDocs)
    /\ queue' = Tail(queue)
    /\ sequence' = sequence + 1
    /\ warnings' = Append(warnings, Warning("Stop discovery: reached max docs limit", NoUrl))
    /\ lastEvent' = Event("warning", nextId, Undef, next.depth)
    /\ lastCalls' = NoCalls
    /\ pc' = "return"
    /\ UNCHANGED <<rootUrl, maxDepth, maxDocs, documents, relations, fetchLog, result>>
    /\ UNCHANGED notCrawlVars
    /\ Emits

\* lines 92-103
NewItem ==
    [id |-> nextId, kind |-> parsed.kind, token |-> parsed.token, url |-> parsed.url,
     depth |-> next.depth, title |-> next.titleHint, parentId |-> next.parentId,
     parentIds |-> mergeParentIds(IF next.parentId # NoId THEN <<next.parentId>> ELSE <<>>,
                                  next.parentId),
     objKind |-> Undef, objToken |-> Undef]

Materialize ==
    /\ Dequeued
    /\ parsed # NoResource
    /\ ~HasDoc(documents, nextId)
    /\ ~CapReached(Len(documents), maxDocs)
    /\ queue # <<>>

DepthReached_Off(depth, limit) == depth > limit
DepthReached(depth, limit) == depth >= limit

\* lines 105-147; discoverFromDocx never rejects
StepDocx ==
    /\ Materialize
    /\ parsed.kind = "docx"
    /\ \E discovered \in DocxDiscoveries :
          LET item == [NewItem EXCEPT !.title = discovered.title]
              pushed == [i \in 1..Len(discovered.links) |->
                            QueueItem(discovered.links[i], next.depth + 1, nextId, Undef)]
          IN /\ documents' = Append(documents, item)
             /\ queue' = IF DepthReached(next.depth, maxDepth) THEN Tail(queue)
                         ELSE Tail(queue) \o pushed
             /\ lastEvent' = Event("success", nextId, item.title, next.depth)
             /\ lastCalls' = [made |-> discovered.calls, failed |-> discovered.failed]
    /\ relations' = mergeRelations(relations, nextId, next.parentId)
    /\ sequence' = sequence + 1
    /\ fetchLog' = Append(fetchLog, nextId)
    /\ UNCHANGED <<pc, rootUrl, maxDepth, maxDocs, warnings, result>>
    /\ UNCHANGED notCrawlVars
    /\ Emits

\* the queue entry of the object a wiki node maps to, lines 156-169
MappedPush(wikiNode) ==
    IF wikiNode.objType # Undef /\ wikiNode.objToken # Undef
       /\ mapWikiObjectKind(wikiNode.objType) # "unknown"
    THEN <<QueueItem(MakeUrl(parsed.url.host, mapWikiObjectKind(wikiNode.objType),
                             wikiNode.objToken),
                     next.depth, nextId, wikiNode.title)>>
    ELSE <<>>

\* lines 150-153
WikiItem(wikiNode) ==
    [NewItem EXCEPT !.title = IF wikiNode.title # Undef THEN wikiNode.title
                              ELSE NewItem.title,
                    !.objKind = wikiNode.objType,
                    !.objToken = wikiNode.objToken]

WikiFrame ==
    /\ relations' = mergeRelations(relations, nextId, next.parentId)
    /\ sequence' = sequence + 1
    /\ fetchLog' = Append(fetchLog, nextId)
    /\ UNCHANGED <<pc, rootUrl, maxDepth, maxDocs, result>>
    /\ UNCHANGED notCrawlVars
    /\ Emits

\* lines 149-187: the node is read, the child listing is not asked for
StepWikiLeaf ==
    /\ Materialize
    /\ parsed.kind = "wiki"
    /\ \E wikiNode \in WikiNodes :
          /\ DepthReached(next.depth, maxDepth) \/ wikiNode.spaceId = Undef
          /\ documents' = Append(documents, WikiItem(wikiNode))
          /\ queue' = Tail(queue) \o MappedPush(wikiNode)
          /\ lastEvent' = Event("success", nextId, WikiItem(wikiNode).title, next.depth)
    /\ lastCalls' = [made |-> 1, failed |-> 0]
    /\ UNCHANGED warnings
    /\ WikiFrame

\* lines 149-213: the node is read and its children are listed
StepWikiChildren ==
    /\ Materialize
    /\ parsed.kind = "wiki"
    /\ \E wikiNode \in WikiNodes, children \in ChildListings :
          LET pushed == [i \in 1..Len(children.nodes) |->
                            QueueItem(MakeUrl(parsed.url.host, "wiki",
                                              children.nodes[i].nodeToken),
                                      next.depth + 1, nextId, children.nodes[i].title)]
          IN /\ ~(DepthReached(next.depth, maxDepth) \/ wikiNode.spaceId = Undef)
             /\ ~children.threw
             /\ documents' = Append(documents, WikiItem(wikiNode))
             /\ queue' = Tail(queue) \o MappedPush(wikiNode) \o pushed
             /\ lastEvent' = Event("success", nextId, WikiItem(wikiNode).title, next.depth)
             /\ lastCalls' = [made |-> 1 + children.calls, failed |-> 0]
    /\ UNCHANGED warnings
    /\ WikiFrame

\* lines 150 and 228-243: getWikiNode rejects
StepWikiNodeError ==
    /\ Materialize
    /\ parsed.kind = "wiki"
    /\ documents' = Append(documents, NewItem)
    /\ queue' = Tail(queue)
    /\ warnings' = Append(warnings, Warning("Failed to read", parsed.url))
    /\ lastEvent' = Event("error", nextId, NewItem.title, next.depth)
    /\ lastCalls' = [made |-> 1, failed |-> 1]
    /\ WikiFrame

\* lines 189 and 228-243: listWikiChildNodes rejects, after the node was read
StepWikiListError ==
    /\ Materialize
    /\ parsed.kind = "wiki"
    /\ \E wikiNode \in WikiNodes, children \in ChildListings :
          /\ ~(DepthReached(next.depth, maxDepth) \/ wikiNode.spaceId = Undef)
          /\ children.threw
          /\ documents' = Append(documents, WikiItem(wikiNode))
          /\ queue' = Tail(queue) \o MappedPush(wikiNode)
          /\ lastEvent' = Event("error", nextId, WikiItem(wikiNode).title, next.depth)
          /\ lastCalls' = [made |-> 1 + children.calls, failed |-> 1]
    /\ warnings' = Append(warnings, Warning("Failed to read", parsed.url))
    /\ WikiFrame

\* lines 215-226
StepOther ==
    /\ Materialize
    /\ parsed.kind \notin {"docx", "wiki"}
    /\ documents' = Append(documents, NewItem)
    /\ relations' = mergeRelations(relations, nextId, next.parentId)
    /\ queue' = Tail(queue)
    /\ sequence' = sequence + 1
    /\ warnings' = Append(warnings, Warning("Skip recursion for unsupported resource kind", parsed.url))
    /\ lastEvent' = Event("warning", nextId, NewItem.title, next.depth)
    /\ lastCalls' = NoCalls
    /\ UNCHANGED <<pc, rootUrl, maxDepth, maxDocs, fetchLog, result>>
    /\ UNCHANGED notCrawlVars
    /\ Emits

\* lines 246-257
Return ==
    /\ \/ pc = "return"
       \/ pc = "loop" /\ queue = <<>>
    /\ pc' = "done"
    /\ LET relationList == serializeRelations(relations) IN
       result' = [rootUrl |-> parseFeishuResource(rootUrl).url,
                  total |-> Len(documents),
                  warnings |-> warnings,
                  documents |-> documents,
                  relations |-> relationList,
                  tree |-> buildDocumentTree(DocIds(documents), relationList)]
    /\ UNCHANGED <<rootUrl, maxDepth, maxDocs, queue, documents, relations, warnings,
                   sequence, lastEvent, lastCalls, fetchLog, progress>>
    /\ UNCHANGED notCrawlVars

CrawlNext ==
    \/ Start
    \/ StepInvalid
    \/ StepSkip
    \/ StepCap
    \/ StepDocx
    \/ StepWikiLeaf
    \/ StepWikiChildren
    \/ StepWikiNodeError
    \/ StepWikiListError
    \/ StepOther
    \/ Return

vars == <<crawlVars, treeVars, mergeVars, clientVars, laterVars>>

Spec == CrawlInit /\ [][CrawlNext]_vars

(***************************************************************************)
(* Properties of the crawl.                                                *)
(***************************************************************************)
KindOf(id) == IF id = NoId THEN "none" ELSE id[1]
CapWarning == Warning("Stop discovery: reached max docs limit", NoUrl)
CapWarnings == {i \in 1..Len(warnings) : warnings[i] = CapWarning}
Distinct(s) == \A i, j \in 1..Len(s) : s[i] = s[j] => i = j
\* the next queue entry is a resource that was not discovered yet
FreshDequeue == Dequeued /\ parsed # NoResource /\ ~HasDoc(documents, nextId)

\* C1: at most maxDocs distinct documents are ever discovered; dequeuing a new
\* resource when the count equals maxDocs records one cap warning and ends the
\* loop: nothing more is dequeued, and the result holds every discovered item.
C1_MaxDocsCap ==
    /\ [](/\ Len(documents) <= maxDocs
          /\ Distinct(DocIds(documents))
          /\ Cardinality(CapWarnings) <= 1
          /\ (pc = "done" => result.documents = documents /\ result.total = Len(documents)))
    /\ [][(FreshDequeue /\ Len(documents) = maxDocs) =>
             /\ warnings' = Append(warnings, CapWarning)
             /\ documents' = documents
             /\ pc' = "return"]_vars
    /\ [][pc = "return" =>
             /\ pc' = "done"
             /\ sequence' = sequence
             /\ queue' = queue
             /\ warnings' = warnings
             /\ result'.documents = documents]_vars

\* the crawl returned after the cap was hit with entries still queued
C1_Witness ==
    /\ pc = "done"
    /\ maxDocs >= 1
    /\ result.total = maxDocs
    /\ CapWarnings # {}
    /\ queue # <<>>

\* C2: every discovered document, and every document of the result, has a depth of
\* at most maxDepth.
C2_DepthBound ==
    /\ \A i \in 1..Len(documents) : documents[i].depth <= maxDepth
    /\ pc = "done" => \A i \in 1..Len(result.documents) : result.documents[i].depth <= maxDepth

\* a document read at the depth limit, beyond the root, below a wiki node
C2_Witness ==
    /\ pc = "done"
    /\ maxDepth >= 1
    /\ lastEvent.status = "success"
    /\ lastEvent.depth = maxDepth
    /\ \E j \in 1..Len(result.documents) :
          /\ result.documents[j].depth = maxDepth
          /\ KindOf(result.documents[j].parentId) = "wiki"

RootId == resourceId(parseFeishuResource(rootUrl).kind, parseFeishuResource(rootUrl).token)

\* C3 as stated: with maxDepth = 0 no queue entry has the root as its parent and
\* the result holds the root only.
C3_Original ==
    maxDepth = 0 =>
        /\ \A i \in 1..Len(queue) : queue[i].parentId = NoId
        /\ Len(documents) <= 1

\* C3 as amended: with maxDepth = 0 nothing is enqueued at a depth above 0 and no
\* child listing is asked for; a docx enqueues nothing, and the only entry a wiki
\* node enqueues is the object it maps to, at depth 0, so every document has depth 0.
C3_NoChildrenAtDepthZero ==
    maxDepth = 0 =>
        /\ \A i \in 1..Len(queue) : queue[i].depth = 0
        /\ \A i \in 1..Len(documents) : documents[i].depth = 0
        /\ Len(queue) <= 1
        /\ KindOf(lastEvent.id) = "wiki" => lastCalls.made <= 1
        /\ \A i \in 1..Len(queue) :
              queue[i].parentId # NoId =>
                 \E j \in 1..Len(documents) :
                    /\ documents[j].id = queue[i].parentId
                    /\ documents[j].kind = "wiki"
                    /\ documents[j].objToken = queue[i].url.token
                    /\ mapWikiObjectKind(documents[j].objKind) = queue[i].url.rawKind
        /\ \A i \in 1..Len(documents) :
              KindOf(documents[i].parentId) \in {"none", "wiki"}

\* a wiki root at maxDepth = 0 whose mapped object was discovered too
C3_Witness ==
    /\ pc = "done"
    /\ maxDepth = 0
    /\ result.total = 2
    /\ result.documents[1].kind = "wiki"
    /\ result.documents[2].parentIds = <<RootId>>

\* the item a skip step finds again, and the same item after the step
Existing == documents[DocIndex(documents, nextId)]
ExistingAfter == documents'[DocIndex(documents, nextId)]

\* C4: a dequeued URL whose identity key is already in the document map is
\* skipped without any API request; only the item's parentIds and the relation
\* set may grow, by the new parent; depth, title, objKind, objToken, the rest of
\* the queue and the warnings stay as they were.
C4_SkipFrame ==
    [][(Dequeued /\ parsed # NoResource /\ HasDoc(documents, nextId)) =>
          /\ lastEvent'.status = "skip"
          /\ fetchLog' = fetchLog
          /\ lastCalls'.made = 0
          /\ queue' = Tail(queue)
          /\ warnings' = warnings
          /\ pc' = pc
          /\ Len(documents') = Len(documents)
          /\ \A i \in 1..Len(documents) :
                documents[i].id # nextId => documents'[i] = documents[i]
          /\ ExistingAfter = [Existing EXCEPT !.parentIds = ExistingAfter.parentIds]
          /\ ExistingAfter.parentIds =
                IF next.parentId = NoId \/ next.parentId \in Range(Existing.parentIds)
                THEN Existing.parentIds
                ELSE Append(Existing.parentIds, next.parentId)
          /\ relations' =
                IF next.parentId = NoId
                   \/ RelationKey(next.parentId, nextId) \in Range(relations)
                THEN relations
                ELSE Append(relations, RelationKey(next.parentId, nextId))]_vars

\* a skip that added a second parent to an item
C4_Witness ==
    /\ lastEvent.status = "skip"
    /\ \E i \in 1..Len(documents) :
          /\ documents[i].id = lastEvent.id
          /\ Len(documents[i].parentIds) = 2
          /\ documents[i].parentIds[2] = documents[i].id

\* C5 as stated: when the API requests made for an item all reject, a warning
\* naming the item is appended and the item ends as error or warning.
C5_Original ==
    (lastCalls.made > 0 /\ lastCalls.failed = lastCalls.made) =>
        /\ lastEvent.status \in {"error", "warning"}
        /\ warnings # <<>>
        /\ warnings[Len(warnings)].url.token = lastEvent.id[3]

Capped == CapWarnings # {}
FetchedOnce == Distinct(fetchLog)

\* the identity keys of the remote graph: a finite set
AllIds == {resourceId(normalizeKind(k), t) : k \in FEISHU_PATH_KINDS, t \in Tokens}
Phase(p) == CASE p = "start" -> 3 [] p = "loop" -> 2 [] p = "return" -> 1 [] OTHER -> 0
\* the step goes down in the order (phase, undiscovered identity keys, queue length)
Decreases ==
    \/ Phase(pc') < Phase(pc)
    \/ /\ pc' = pc
       /\ Len(documents') = Len(documents) + 1
    \/ /\ pc' = pc
       /\ documents' = documents \/ DocIds(documents') = DocIds(documents)
       /\ Len(queue') < Len(queue)

\* C6: the crawl terminates, on a cycle of links as on any other graph: every step
\* goes down in a well-founded order (the discovered keys are distinct keys of the
\* finite graph), a step is possible until the crawl has returned, the crawl ends
\* with an empty queue or at the cap, and no identity key is fetched twice.
C6_Terminates ==
    /\ [][Decreases]_vars
    /\ [](/\ Distinct(DocIds(documents))
          /\ Range(DocIds(documents)) \subseteq AllIds
          /\ FetchedOnce
          /\ (pc \notin {"done", "thrown"} => ENABLED CrawlNext)
          /\ (pc = "done" => (queue = <<>> \/ Capped)))

\* a finished crawl that met a self-link and a wiki node mapped to itself or to
\* another wiki node
C6_Witness ==
    /\ pc = "done"
    /\ ~Capped
    /\ \E i \in 1..Len(result.relations) :
          result.relations[i].parentId = result.relations[i].childId
    /\ \E i \in 1..Len(result.documents) :
          result.documents[i].kind = "wiki" /\ result.documents[i].objKind = "wiki"

(***************************************************************************)
(* buildDocumentTree on its own: any list of distinct document ids (the    *)
(* values of a Map) and any list of distinct relations (a serialized Set). *)
(***************************************************************************)
MaxTreeDocuments == 3
MaxTreeRelations == 3

CrawlIdle ==
    /\ pc = "idle"
    /\ rootUrl = NoUrl
    /\ maxDepth = 0
    /\ maxDocs = 0
    /\ queue = <<>>
    /\ documents = <<>>
    /\ relations = <<>>
    /\ warnings = <<>>
    /\ sequence = 0
    /\ lastEvent = NoEvent
    /\ lastCalls = NoCalls
    /\ fetchLog = <<>>
    /\ progress = <<>>
    /\ result = NoResult

\* the ids of the documents and of the relations
StructureIds == {resourceId("wiki", "a"), resourceId("docx", "a"), resourceId("docx", "b")}
DocumentRelations == {[parentId |-> p, childId |-> c] : p \in StructureIds, c \in StructureIds}
DistinctSeqs(S, n) == {s \in UNION {[1..k -> S] : k \in 0..n} : Distinct(s)}

TreeInit ==
    /\ treePc = "input"
    /\ treeDocuments \in DistinctSeqs(StructureIds, MaxTreeDocuments)
    /\ treeRelations \in DistinctSeqs(DocumentRelations, MaxTreeRelations)
    /\ tree = <<>>
    /\ CrawlIdle
    /\ MergeIdle
    /\ ClientIdle
    /\ LaterIdle

BuildTree ==
    /\ treePc = "input"
    /\ tree' = buildDocumentTree(treeDocuments, treeRelations)
    /\ treePc' = "built"
    /\ UNCHANGED <<treeDocuments, treeRelations, crawlVars, mergeVars, clientVars, laterVars>>

TreeNext == BuildTree

SpecTree == TreeInit /\ [][TreeNext]_vars

RECURSIVE PathsOf(_)
\* the id sequences from a node down to each of its leaves
PathsOf(node) ==
    IF node.children = <<>> THEN {<<node.id>>}
    ELSE UNION {{<<node.id>> \o path : path \in PathsOf(node.children[i])} :
                   i \in 1..Len(node.children)}
TreePaths == UNION {PathsOf(tree[i]) : i \in 1..Len(tree)}

\* C7 as stated: the tree is built and no root-to-leaf path of it holds an id twice.
C7_Original ==
    treePc = "built" => \A path \in TreePaths : Distinct(path)

\* C7 as amended: buildDocumentTree returns, and on every root-to-leaf path of the
\* tree the ids above the leaf are distinct document ids: an id that is already on
\* the path appears once more, as a leaf without children, and nowhere else.
C7_CycleTruncation ==
    /\ treePc = "input" => ENABLED BuildTree
    /\ treePc = "built" =>
          \A path \in TreePaths :
             /\ Distinct(SubSeq(path, 1, Len(path) - 1))
             /\ Range(path) \subseteq Range(treeDocuments)
             /\ Len(path) <= Len(treeDocuments) + 1

\* a tree over a cycle of two documents below a root: the path ends on the id it
\* met two levels up
C7_Witness ==
    /\ treePc = "built"
    /\ \E path \in TreePaths :
          /\ Len(path) = 4
          /\ path[4] = path[2]
          /\ Distinct(SubSeq(path, 1, 3))

(***************************************************************************)
(* mergeParentRelation on its own: items are created as discoverDocuments  *)
(* creates them, and any parent is merged into any item, in any order.     *)
(***************************************************************************)
MaxMergeCalls == 4

ParentArgs == StructureIds \cup {NoId}

MergeInit ==
    /\ mergePc = "calls"
    /\ itemList = <<>>
    /\ relationSet = <<>>
    /\ mergeCalls = <<>>
    /\ CrawlIdle
    /\ TreeIdle
    /\ ClientIdle
    /\ LaterIdle

\* a new item and its first mergeParentRelation call
CreateItem ==
    /\ mergePc = "calls"
    /\ Len(mergeCalls) < MaxMergeCalls
    /\ \E id \in StructureIds, parentId \in ParentArgs :
          /\ ~HasDoc(itemList, id)
          /\ itemList' = Append(itemList,
                [id |-> id,
                 parentIds |-> mergeParentIds(IF parentId # NoId THEN <<parentId>> ELSE <<>>,
                                              parentId)])
          /\ relationSet' = mergeRelations(relationSet, id, parentId)
          /\ mergeCalls' = Append(mergeCalls, <<id, parentId>>)
    /\ UNCHANGED <<mergePc, crawlVars, treeVars, clientVars, laterVars>>

\* mergeParentRelation(existing, parentId, relations)
MergeParent ==
    /\ mergePc = "calls"
    /\ Len(mergeCalls) < MaxMergeCalls
    /\ \E i \in 1..Len(itemList), parentId \in ParentArgs :
          /\ itemList' = [itemList EXCEPT ![i].parentIds = mergeParentIds(@, parentId)]
          /\ relationSet' = mergeRelations(relationSet, itemList[i].id, parentId)
          /\ mergeCalls' = Append(mergeCalls, <<itemList[i].id, parentId>>)
    /\ UNCHANGED <<mergePc, crawlVars, treeVars, clientVars, laterVars>>

MergeNext ==
    \/ CreateItem
    \/ MergeParent

SpecMerge == MergeInit /\ [][MergeNext]_vars

\* the calls that passed a parent, and those of them made for one item
WithParent(call) == call[2] # NoId
ParentsPassed(id) ==
    LET For(call) == call[1] = id /\ WithParent(call)
        mine == SelectSeq(mergeCalls, For)
    IN [n \in 1..Len(mine) |-> mine[n][2]]
PairsPassed ==
    LET linked == SelectSeq(mergeCalls, WithParent)
    IN [n \in 1..Len(linked) |-> [parentId |-> linked[n][2], childId |-> linked[n][1]]]

\* C8: after any sequence of mergeParentRelation calls every item's parentIds has
\* no duplicate and lists the parents passed for it in first-seen order, and the
\* serialized relation list holds every (parentId, childId) pair passed exactly
\* once, in first-seen order.
C8_ParentIdsAndRelations ==
    mergePc = "calls" =>
        /\ \A i \in 1..Len(itemList) :
              /\ Distinct(itemList[i].parentIds)
              /\ itemList[i].parentIds = Dedupe(ParentsPassed(itemList[i].id))
        /\ Distinct(serializeRelations(relationSet))
        /\ serializeRelations(relationSet) = Dedupe(PairsPassed)

\* an item with two parents, one of them passed twice
C8_Witness ==
    /\ mergePc = "calls"
    /\ \E i \in 1..Len(itemList) :
          /\ Len(itemList[i].parentIds) = 2
          /\ Len(ParentsPassed(itemList[i].id)) = 3
    /\ Len(PairsPassed) > Len(relationSet)
    /\ Len(relationSet) = 2

(***************************************************************************)
(* FeishuClient: how requests are scheduled.  request() hands a job to the *)
(* limiter (one job at a time, minTime between two launches); the job runs *)
(* requestWithRetry: up to 1 + API_RETRY_COUNT attempts of requestOnce,    *)
(* each of which gets the tenant access token (from the cache, or by a     *)
(* request of its own that goes around the limiter) and then makes the     *)
(* HTTP call.  Time is counted in steps of TickMs milliseconds.            *)
(***************************************************************************)
API_RETRY_COUNT == 4
API_RETRY_MIN_TIMEOUT_MS == 300
API_RATE_LIMIT_MIN_TIME_MS == 300
API_RATE_LIMIT_MAX_CONCURRENT == 1
TickMs == 150
MaxLinkRequests == 2    \* requests one collectDocumentLinks call makes at most

FEISHU_RATE_LIMIT_CODES == {99991400}
OtherApiCode == 1       \* an envelope code that is neither 0 nor a rate-limit code
NoStatus == 0           \* a FetchError without a response: timeout, transport error
HttpStatuses == {400, 429, 500}

\* the ways one requestOnce call fails: envelope validation, a non-zero envelope
\* code, data validation, or a FetchError with its status and its body's code
NoFailure == [kind |-> "none", status |-> NoStatus, code |-> 0]
Failures ==
    {[kind |-> k, status |-> NoStatus, code |-> 0] : k \in {"envelope", "data"}}
    \cup {[kind |-> "api", status |-> NoStatus, code |-> c] :
             c \in FEISHU_RATE_LIMIT_CODES \cup {OtherApiCode}}
    \cup {[kind |-> "fetch", status |-> s, code |-> 0] : s \in HttpStatuses \cup {NoStatus}}
    \cup {[kind |-> "fetch", status |-> 400, code |-> c] : c \in FEISHU_RATE_LIMIT_CODES}

isRateLimitErrorCode(code) == code # 0 /\ code \in FEISHU_RATE_LIMIT_CODES

\* the flag, had the status alone decided it
Retriable_StatusOnly(failure) ==
    failure.kind = "fetch" /\ (failure.status = 429 \/ failure.status >= 500)
\* the retriable flag requestOnce gives the FeishuRequestError it throws
Retriable(failure) ==
    CASE failure.kind = "api" -> isRateLimitErrorCode(failure.code)
      [] failure.kind = "fetch" ->
            \/ isRateLimitErrorCode(failure.code)
            \/ failure.status = 429
            \/ failure.status # NoStatus /\ failure.status >= 500
      [] OTHER -> FALSE

\* pRetry, had it been told to retry whatever the error
shouldRetryRequest_Always(error) == TRUE
shouldRetryRequest(error) == error.kind # "none" /\ Retriable(error)

ChainNames == {"title", "links"}
IdleChain == [st |-> "idle", attempt |-> 0, tokenAttempt |-> 0, wait |-> 0,
              refreshed |-> FALSE, requests |-> 0, error |-> NoFailure]
Min(a, b) == IF a < b THEN a ELSE b

ClientInit ==
    /\ chains = [c \in ChainNames |-> IdleChain]
    /\ limiterQueue = <<>>
    /\ tokenCache = "none"
    /\ inFlight = 0
    /\ sinceLaunch = API_RATE_LIMIT_MIN_TIME_MS
    /\ sinceHttp = API_RATE_LIMIT_MIN_TIME_MS
    /\ launchGapOk = TRUE
    /\ httpGapOk = TRUE
    /\ lastHttp = [call |-> "none", after |-> "none"]
    /\ CrawlIdle
    /\ TreeIdle
    /\ MergeIdle
    /\ LaterIdle

notClientVars == <<crawlVars, treeVars, mergeVars, laterVars>>
Running(c) == chains[c].st \in {"attempt", "token", "tokenRetry", "authed", "main", "retry"}
RunningCount == Cardinality({c \in ChainNames : Running(c)})

\* discoverFromDocx: getDocumentTitle and collectDocumentLinks both call request()
\* before either is awaited
Submit ==
    /\ \A c \in ChainNames : chains[c].st = "idle"
    /\ chains' = [c \in ChainNames |-> [IdleChain EXCEPT !.st = "queued", !.requests = 1]]
    /\ limiterQueue' = limiterQueue \o <<"title", "links">>
    /\ UNCHANGED <<tokenCache, inFlight, sinceLaunch, sinceHttp, launchGapOk, httpGapOk,
                   lastHttp, notClientVars>>

\* the limiter, had it been given room for one more job
SlotFree_OneMore(running) == running < API_RATE_LIMIT_MAX_CONCURRENT + 1
\* Bottleneck's maxConcurrent
SlotFree(running) == running < API_RATE_LIMIT_MAX_CONCURRENT

\* the limiter, had it been built without minTime
SpacingElapsed_NoMinTime(elapsed) == elapsed >= 0
\* Bottleneck's minTime
SpacingElapsed(elapsed) == elapsed >= API_RATE_LIMIT_MIN_TIME_MS

\* limiter.schedule launches the oldest job
Launch ==
    /\ limiterQueue # <<>>
    /\ SlotFree(RunningCount)
    /\ SpacingElapsed(sinceLaunch)
    /\ chains' = [chains EXCEPT ![Head(limiterQueue)].st = "attempt",
                                ![Head(limiterQueue)].attempt = 1]
    /\ limiterQueue' = Tail(limiterQueue)
    /\ launchGapOk' = (sinceLaunch >= API_RATE_LIMIT_MIN_TIME_MS)
    /\ sinceLaunch' = 0
    /\ UNCHANGED <<tokenCache, inFlight, sinceHttp, httpGapOk, lastHttp, notClientVars>>

\* ofetch is called
HttpStart(call, after) ==
    /\ inFlight' = inFlight + 1
    /\ httpGapOk' = (sinceHttp >= API_RATE_LIMIT_MIN_TIME_MS)
    /\ sinceHttp' = 0
    /\ lastHttp' = [call |-> call, after |-> after]

\* what an attempt's first HTTP call comes after
Opening(c) == IF chains[c].attempt > 1 THEN "retry" ELSE "launch"

\* requestOnce up to the token: a cache hit, or a miss that requests a token
\* through requestWithoutLimiter
Authorize(c) ==
    /\ chains[c].st = "attempt"
    /\ \/ /\ tokenCache = "cached"
          /\ chains' = [chains EXCEPT ![c].st = "authed", ![c].refreshed = FALSE]
          /\ UNCHANGED <<tokenCache, inFlight, sinceHttp, httpGapOk, lastHttp>>
       \/ /\ chains' = [chains EXCEPT ![c].st = "token", ![c].tokenAttempt = 1,
                                      ![c].refreshed = FALSE]
          /\ tokenCache' = "none"
          /\ HttpStart("token", Opening(c))
    /\ UNCHANGED <<limiterQueue, sinceLaunch, launchGapOk, notClientVars>>

\* the attempt rejects: pRetry waits and tries again, or the job rejects with
\* the error of its last attempt
AttemptFailed(c, failure) ==
    IF shouldRetryRequest(failure) /\ chains[c].attempt <= API_RETRY_COUNT
    THEN [chains EXCEPT ![c].st = "retry", ![c].wait = 0, ![c].error = failure]
    ELSE [chains EXCEPT ![c].st = "settled", ![c].error = failure]

TokenOk(c) ==
    /\ chains[c].st = "token"
    /\ inFlight' = inFlight - 1
    /\ tokenCache' = "cached"
    /\ chains' = [chains EXCEPT ![c].st = "authed", ![c].refreshed = TRUE]
    /\ UNCHANGED <<limiterQueue, sinceLaunch, sinceHttp, launchGapOk, httpGapOk, lastHttp,
                   notClientVars>>

TokenFail(c) ==
    /\ chains[c].st = "token"
    /\ inFlight' = inFlight - 1
    /\ \E failure \in Failures :
          chains' = IF shouldRetryRequest(failure) /\ chains[c].tokenAttempt <= API_RETRY_COUNT
                    THEN [chains EXCEPT ![c].st = "tokenRetry", ![c].wait = 0,
                                        ![c].error = failure]
                    ELSE AttemptFailed(c, failure)
    /\ UNCHANGED <<limiterQueue, tokenCache, sinceLaunch, sinceHttp, launchGapOk, httpGapOk,
                   lastHttp, notClientVars>>

\* pRetry's delay is at least minTimeout
TokenRetry(c) ==
    /\ chains[c].st = "tokenRetry"
    /\ chains[c].wait >= API_RETRY_MIN_TIMEOUT_MS
    /\ chains' = [chains EXCEPT ![c].st = "token", ![c].tokenAttempt = @ + 1,
                                  ![c].error = NoFailure]
    /\ HttpStart("token", "retry")
    /\ UNCHANGED <<limiterQueue, tokenCache, sinceLaunch, launchGapOk, notClientVars>>

MainStart(c) ==
    /\ chains[c].st = "authed"
    /\ chains' = [chains EXCEPT ![c].st = "main"]
    /\ HttpStart("main", IF chains[c].refreshed THEN "token" ELSE Opening(c))
    /\ UNCHANGED <<limiterQueue, tokenCache, sinceLaunch, launchGapOk, notClientVars>>

MainOk(c) ==
    /\ chains[c].st = "main"
    /\ inFlight' = inFlight - 1
    /\ chains' = [chains EXCEPT ![c].st = "settled"]
    /\ UNCHANGED <<limiterQueue, tokenCache, sinceLaunch, sinceHttp, launchGapOk, httpGapOk,
                   lastHttp, notClientVars>>

MainFail(c) ==
    /\ chains[c].st = "main"
    /\ inFlight' = inFlight - 1
    /\ \E failure \in Failures : chains' = AttemptFailed(c, failure)
    /\ UNCHANGED <<limiterQueue, tokenCache, sinceLaunch, sinceHttp, launchGapOk, httpGapOk,
                   lastHttp, notClientVars>>

Retry(c) ==
    /\ chains[c].st = "retry"
    /\ chains[c].wait >= API_RETRY_MIN_TIMEOUT_MS
    /\ chains' = [chains EXCEPT ![c].st = "attempt", ![c].attempt = @ + 1,
                                  ![c].error = NoFailure]
    /\ UNCHANGED <<limiterQueue, tokenCache, inFlight, sinceLaunch, sinceHttp, launchGapOk,
                   httpGapOk, lastHttp, notClientVars>>

\* collectDocumentLinks asks for the next page, or for the raw content
NextRequest ==
    /\ chains["links"].st = "settled"
    /\ chains["links"].requests < MaxLinkRequests
    /\ chains' = [chains EXCEPT !["links"] =
                     [IdleChain EXCEPT !.st = "queued", !.requests = chains["links"].requests + 1]]
    /\ limiterQueue' = Append(limiterQueue, "links")
    /\ UNCHANGED <<tokenCache, inFlight, sinceLaunch, sinceHttp, launchGapOk, httpGapOk,
                   lastHttp, notClientVars>>

\* Promise.all resolves
Resolve ==
    /\ \A c \in ChainNames : chains[c].st = "settled"
    /\ chains' = [c \in ChainNames |-> IdleChain]
    /\ UNCHANGED <<limiterQueue, tokenCache, inFlight, sinceLaunch, sinceHttp, launchGapOk,
                   httpGapOk, lastHttp, notClientVars>>

Waiting(c) == chains[c].st \in {"retry", "tokenRetry"}

\* TickMs milliseconds pass
Tick ==
    /\ sinceLaunch' = Min(sinceLaunch + TickMs, API_RATE_LIMIT_MIN_TIME_MS)
    /\ sinceHttp' = Min(sinceHttp + TickMs, API_RATE_LIMIT_MIN_TIME_MS)
    /\ chains' = [c \in ChainNames |->
                     IF Waiting(c)
                     THEN [chains[c] EXCEPT !.wait = Min(@ + TickMs, API_RETRY_MIN_TIMEOUT_MS)]
                     ELSE chains[c]]
    /\ UNCHANGED <<limiterQueue, tokenCache, inFlight, launchGapOk, httpGapOk, lastHttp,
                   notClientVars>>

ClientNext ==
    \/ Submit
    \/ Launch
    \/ \E c \in ChainNames : Authorize(c)
    \/ \E c \in ChainNames : TokenOk(c)
    \/ \E c \in ChainNames : TokenFail(c)
    \/ \E c \in ChainNames : TokenRetry(c)
    \/ \E c \in ChainNames : MainStart(c)
    \/ \E c \in ChainNames : MainOk(c)
    \/ \E c \in ChainNames : MainFail(c)
    \/ \E c \in ChainNames : Retry(c)
    \/ NextRequest
    \/ Resolve
    \/ Tick

SpecClient == ClientInit /\ [][ClientNext]_vars

InCall(c) == chains[c].st \in {"token", "main"}

\* C9: at most one HTTP call of the client is in flight, and it is a call of the
\* one job the limiter runs; this holds while the title request and the listing
\* request wait in the limiter together and while a token is requested in a job.
C9_SingleFlight ==
    /\ inFlight <= 1
    /\ inFlight = Cardinality({c \in ChainNames : InCall(c)})
    /\ RunningCount <= 1

\* the token request of the title job is in flight while the listing job waits
C9_Witness ==
    /\ inFlight = 1
    /\ chains["title"].st = "token"
    /\ chains["links"].st = "queued"
    /\ limiterQueue = <<"links">>

\* C10 as stated: every HTTP call starts at least the limiter's minimum spacing
\* after the HTTP call before it.
C10_Original == httpGapOk

\* C10 as amended: every job of request() is launched by the limiter at least
\* minTime after the launch before it, HTTP calls are made by the running job
\* only, and an HTTP call that follows a retry delay starts at least minTime after
\* the call before it; only a call that follows the token request of its attempt,
\* or that is the first of its job, may start sooner.
C10_LimiterSpacing ==
    /\ launchGapOk
    /\ inFlight > 0 => RunningCount > 0
    /\ lastHttp.after = "retry" => httpGapOk

\* the second job was launched, its token request failed and was retried, and its
\* HTTP call came straight after the token
C10_Witness ==
    /\ chains["title"].st = "settled"
    /\ chains["links"].st = "main"
    /\ chains["links"].tokenAttempt = 2
    /\ lastHttp = [call |-> "main", after |-> "token"]
    /\ ~httpGapOk
    /\ launchGapOk

\* the failures the claim lists as non-retriable: envelope or data validation,
\* an API code that is not a rate-limit code, HTTP 4xx other than 429
ListedNonRetriable(f) ==
    \/ f.kind \in {"envelope", "data"}
    \/ f.kind = "api" /\ f.code \notin FEISHU_RATE_LIMIT_CODES
    \/ f.kind = "fetch" /\ f.status >= 400 /\ f.status < 500 /\ f.status # 429
\* the same, with an HTTP 4xx whose body carries a rate-limit code left out
NonRetriableFailure(f) ==
    /\ ListedNonRetriable(f)
    /\ ~(f.kind = "fetch" /\ f.code \in FEISHU_RATE_LIMIT_CODES)
RetriableFailure(f) ==
    \/ f.kind \in {"api", "fetch"} /\ f.code \in FEISHU_RATE_LIMIT_CODES
    \/ f.kind = "fetch" /\ f.status = 429
    \/ f.kind = "fetch" /\ f.status >= 500
Failing(c) == chains[c].st \in {"main", "token"} /\ chains'[c].error # NoFailure
Budget == API_RETRY_COUNT + 1

\* C11 as stated: a request is attempted at most API_RETRY_COUNT + 1 times, and
\* no failure of the listed non-retriable kinds (HTTP 4xx other than 429 among
\* them) is followed by another attempt.
C11_Original ==
    \A c \in ChainNames :
        /\ chains[c].attempt <= Budget
        /\ chains[c].st \in {"retry", "tokenRetry"} => ~ListedNonRetriable(chains[c].error)

\* C11 as amended: a request, and the token request made inside an attempt, is
\* attempted at most API_RETRY_COUNT + 1 times; a retriable failure (rate-limit
\* code in the envelope or in the error body, HTTP 429, HTTP 5xx) is retried while
\* attempts are left and surfaces as the caller's error once the last attempt has
\* failed; a non-retriable failure (envelope or data validation, non-rate-limit
\* API code, HTTP 4xx other than 429 whose body carries no rate-limit code)
\* surfaces on the attempt where it happens, so after exactly one attempt when it
\* is the first failure.
C11_RetryBudget ==
    [][\A c \in ChainNames :
          /\ chains'[c].attempt <= Budget
          /\ chains'[c].tokenAttempt <= Budget
          /\ chains'[c].attempt > chains[c].attempt /\ chains[c].attempt > 0
                => chains[c].st = "retry" /\ RetriableFailure(chains[c].error)
          /\ Failing(c) /\ NonRetriableFailure(chains'[c].error)
                => /\ chains'[c].st = "settled"
                   /\ chains'[c].attempt = chains[c].attempt
          /\ Failing(c) /\ RetriableFailure(chains'[c].error)
                => \/ chains[c].st = "token" /\ chains[c].tokenAttempt < Budget
                      /\ chains'[c].st = "tokenRetry"
                   \/ chains[c].attempt < Budget /\ chains'[c].st = "retry"
                   \/ chains[c].attempt = Budget /\ chains'[c].st = "settled"
      ]_vars

\* the title request surfaced an HTTP 400 carrying the rate-limit code after its
\* fifth attempt
C11_Witness ==
    /\ chains["title"].st = "settled"
    /\ chains["title"].attempt = Budget
    /\ chains["title"].error = [kind |-> "fetch", status |-> 400, code |-> 99991400]

(***************************************************************************)
(* Path segments and the export plan.  A title or a path segment is the    *)
(* sequence of its characters; "/" stands for the characters                *)
(* sanitizePathSegment replaces, "a" for the ones it keeps.                 *)
(***************************************************************************)
MaxTitleLen == 4
MaxPlanDocuments == 3
MaxPlanRelations == 2

TitleChars == {"a", " ", "/", ".", "-"}
IllegalChars == {"\\", "/", ":", "*", "?", "\"", "<", ">", "|"}
Strings(chars, n) == UNION {[1..k -> chars] : k \in 0..n}

Keep(s, keep) == [n \in 1..Cardinality(keep) |-> s[Nth(keep, n)]]
\* replace(/^c+/, ''), and trim's front half
StripStart(s, chars) ==
    LET k == CHOOSE k \in 0..Len(s) :
                 /\ \A i \in 1..k : s[i] \in chars
                 /\ k = Len(s) \/ s[k + 1] \notin chars
    IN SubSeq(s, k + 1, Len(s))
\* replace(/c+$/, ''), and trim's back half
StripEnd(s, chars) ==
    LET k == CHOOSE k \in 0..Len(s) :
                 /\ \A i \in (Len(s) - k + 1)..Len(s) : s[i] \in chars
                 /\ k = Len(s) \/ s[Len(s) - k] \notin chars
    IN SubSeq(s, 1, Len(s) - k)

sanitizePathSegment(input, fallback) ==
    LET trimmed == StripEnd(StripStart(input, {" "}), {" "})
        collapsed == Keep(trimmed, {i \in 1..Len(trimmed) :
                                       ~(trimmed[i] = " " /\ i > 1 /\ trimmed[i - 1] = " ")})
        replaced == [i \in 1..Len(collapsed) |->
                        IF collapsed[i] \in IllegalChars THEN "-" ELSE collapsed[i]]
        noDots == StripEnd(replaced, {"."})
        noLead == StripStart(noDots, {"-"})
        normalized == StripEnd(noLead, {"-"})
    IN IF normalized # <<>> THEN normalized ELSE fallback

\* `${segment}-${count}`
Decimal(n) == <<"0", "1", "2", "3", "4", "5", "6", "7", "8", "9">>[n + 1]
createUniqueSegment(parentSegments, segment, pathCounters) ==
    LET baseKey == <<parentSegments, segment>>
        count == (IF baseKey \in DOMAIN pathCounters THEN pathCounters[baseKey] ELSE 0) + 1
    IN [segment |-> IF count = 1 THEN segment ELSE segment \o <<"-", Decimal(count)>>,
        pathCounters |-> [k \in DOMAIN pathCounters \cup {baseKey} |->
                             IF k = baseKey THEN count ELSE pathCounters[k]]]

Item(id, title, obj) ==
    [id |-> id, kind |-> id[1], token |-> id[3], title |-> title,
     objKind |-> obj[1], objToken |-> obj[2]]
NoObj == <<Undef, Undef>>
NoItem == Item(<<"none", ":", "">>, <<>>, NoObj)

isWikiMappedDocxChild(item, parentItem) ==
    /\ parentItem # NoItem
    /\ item.kind = "docx" /\ parentItem.kind = "wiki"
    /\ mapWikiObjectKind(parentItem.objKind) = "docx"
    /\ parentItem.objToken # Undef /\ parentItem.objToken = item.token

RECURSIVE walkTree(_, _, _, _, _, _)
RECURSIVE walkEach(_, _, _, _, _, _, _)
\* walkTree; acc holds plans and pathCounters, which the source updates in place
walkTree(node, parentItem, parentSegments, trail, documentsById, acc) ==
    IF node.id \notin DOMAIN documentsById THEN acc
    ELSE LET item == documentsById[node.id]
         IN IF node.id \in trail \/ isWikiMappedDocxChild(item, parentItem) THEN acc
            ELSE LET rawSegment == sanitizePathSegment(item.title, <<item.kind, "-", item.token>>)
                     unique == createUniqueSegment(parentSegments, rawSegment, acc.pathCounters)
                     pathSegments == Append(parentSegments, unique.segment)
                     pushed == [plans |-> Append(acc.plans, [item |-> item,
                                                             pathSegments |-> pathSegments]),
                                pathCounters |-> unique.pathCounters]
                 IN walkEach(node.children, 1, item, pathSegments, trail \cup {node.id},
                             documentsById, pushed)
\* for (const child of node.children) walkTree(child, ...), from the i-th on
walkEach(nodes, i, parentItem, parentSegments, trail, documentsById, acc) ==
    IF i > Len(nodes) THEN acc
    ELSE walkEach(nodes, i + 1, parentItem, parentSegments, trail, documentsById,
                  walkTree(nodes[i], parentItem, parentSegments, trail, documentsById, acc))

buildFallbackTree(docs) == [i \in 1..Len(docs) |-> [id |-> docs[i].id, children |-> <<>>]]

\* buildExportPlan, with documentsById as exportMarkdown builds it
buildExportPlan(docs, docTree) ==
    LET documentsById == [id \in {docs[i].id : i \in 1..Len(docs)} |->
                             docs[CHOOSE i \in 1..Len(docs) :
                                 /\ docs[i].id = id
                                 /\ \A j \in (i + 1)..Len(docs) : docs[j].id # id]]
        roots == IF Len(docTree) > 0 THEN docTree ELSE buildFallbackTree(docs)
    IN walkEach(roots, 1, NoItem, <<>>, {}, documentsById,
                [plans |-> <<>>, pathCounters |-> <<>>]).plans

\* the manifests: documents with distinct ids, and the tree discoverDocuments
\* builds from them and from the relations
DocumentLists(itemSet, n) ==
    {d \in UNION {[1..k -> itemSet] : k \in 0..n} :
        \A i, j \in 1..Len(d) : i # j => d[i].id # d[j].id}
Manifests(itemSet, n, rels, m) ==
    {[state |-> "ok", documents |-> d,
      tree |-> buildDocumentTree(DocIds(d), r)] :
        d \in DocumentLists(itemSet, n), r \in DistinctSeqs(rels, m)}

PlanTitles == {<<>>, <<"a">>, <<"a", "-", "2">>}
PlanItems ==
    {Item(resourceId("docx", t), ti, NoObj) : t \in {"a", "b"}, ti \in PlanTitles}
    \cup {Item(resourceId("wiki", "a"), ti, o) : ti \in PlanTitles, o \in {NoObj, <<"docx", "b">>}}

SanitizeInit ==
    /\ called = "sanitizePathSegment"
    /\ args \in Strings(TitleChars, MaxTitleLen)
    /\ returned = <<>>
    /\ ExportIdle
    /\ CrawlIdle
    /\ TreeIdle
    /\ MergeIdle
    /\ ClientIdle

SanitizeCall ==
    /\ called = "sanitizePathSegment"
    /\ returned' = sanitizePathSegment(args, <<"docx", "-", "a">>)
    /\ called' = "returned"
    /\ UNCHANGED <<args, exportVars, crawlVars, treeVars, mergeVars, clientVars>>

SpecSanitize == SanitizeInit /\ [][SanitizeCall]_vars

PlanInit ==
    /\ called = "buildExportPlan"
    /\ args \in Manifests(PlanItems, MaxPlanDocuments, DocumentRelations, MaxPlanRelations)
    /\ returned = <<>>
    /\ ExportIdle
    /\ CrawlIdle
    /\ TreeIdle
    /\ MergeIdle
    /\ ClientIdle

PlanCall ==
    /\ called = "buildExportPlan"
    /\ returned' = buildExportPlan(args.documents, args.tree)
    /\ called' = "returned"
    /\ UNCHANGED <<args, exportVars, crawlVars, treeVars, mergeVars, clientVars>>

SpecPlan == PlanInit /\ [][PlanCall]_vars

(***************************************************************************)
(* exportMarkdown.  A Markdown text is the sequence of the kinds of its    *)
(* non-blank lines, "heading" or "text"; the empty string is <<>>.         *)
(***************************************************************************)
MaxExportDocuments == 2
MaxExportRelations == 1

\* the test, had it not counted the headings
hasMarkdownBodyContent_AnyText(markdown) ==
    \E i \in 1..Len(markdown) : markdown[i] # "heading"
hasMarkdownBodyContent(markdown) ==
    \/ \E i \in 1..Len(markdown) : markdown[i] # "heading"
    \/ Cardinality({i \in 1..Len(markdown) : markdown[i] = "heading"}) > 1
hasMarkdownBody(lines) == \E i \in 1..Len(lines) : lines[i] # "heading"
normalizeLine(input) == StripEnd(StripStart(input, {" "}), {" "})

\* renderDocxMarkdown, the blocks given as the lines they render
renderDocxMarkdown(title, blocks, rawContent) ==
    LET lines == (IF normalizeLine(title) # <<>> THEN <<"heading">> ELSE <<>>) \o blocks
    IN IF lines = <<>> THEN rawContent
       ELSE IF ~hasMarkdownBody(lines) THEN lines \o rawContent
       ELSE lines

\* what the service answers during an export
LiveNodes ==
    {[ok |-> FALSE, objType |-> Undef, objToken |-> Undef]}
    \cup {[ok |-> TRUE, objType |-> o[1], objToken |-> o[2]] :
             o \in {NoObj, <<"docx", "b">>, <<"file", "f">>, <<"sheet", "s">>}}
BlocksResponses ==
    {[ok |-> FALSE, lines |-> <<>>]}
    \cup {[ok |-> TRUE, lines |-> l] : l \in {<<>>, <<"heading">>, <<"text">>}}
RawContentResponses ==
    {[ok |-> FALSE, lines |-> <<>>]} \cup {[ok |-> TRUE, lines |-> l] : l \in {<<>>, <<"text">>}}
Downloads ==
    {[ok |-> FALSE, text |-> FALSE, content |-> <<>>],
     [ok |-> TRUE, text |-> FALSE, content |-> <<"text">>]}
    \cup {[ok |-> TRUE, text |-> TRUE, content |-> c] : c \in {<<>>, <<"heading">>, <<"text">>}}

Fetched(ok, markdown, calls) == [ok |-> ok, markdown |-> markdown, calls |-> calls]
fetchDocxMarkdown(title, blocks, raw) ==
    IF ~blocks.ok THEN Fetched(FALSE, <<>>, <<"getDocxBlocks">>)
    ELSE LET markdown == renderDocxMarkdown(title, blocks.lines, <<>>)
         IN IF markdown # <<>> THEN Fetched(TRUE, markdown, <<"getDocxBlocks">>)
            ELSE IF ~raw.ok THEN Fetched(FALSE, <<>>, <<"getDocxBlocks", "getDocxRawContent">>)
            ELSE Fetched(TRUE, renderDocxMarkdown(title, <<>>, raw.lines),
                         <<"getDocxBlocks", "getDocxRawContent">>)
fetchDriveFileMarkdown(downloaded) ==
    Fetched(downloaded.ok /\ downloaded.text, downloaded.content, <<"downloadDriveFile">>)
\* the results a fetch of the source can have
Fetches(source, title) ==
    IF source.kind = "docx"
    THEN {fetchDocxMarkdown(title, b, r) : b \in BlocksResponses, r \in RawContentResponses}
    ELSE {fetchDriveFileMarkdown(d) : d \in Downloads}

NoSource == [kind |-> "none", token |-> Undef]
\* resolveWikiObjectSource, had it known document objects only
resolveWikiObjectSource_DocxOnly(objKind, objToken) ==
    IF objToken # Undef /\ mapWikiObjectKind(objKind) = "docx"
    THEN [kind |-> "docx", token |-> objToken]
    ELSE NoSource
resolveWikiObjectSource(objKind, objToken) ==
    IF objToken = Undef THEN NoSource
    ELSE IF mapWikiObjectKind(objKind) = "docx" THEN [kind |-> "docx", token |-> objToken]
    ELSE IF objKind = "file" THEN [kind |-> "file", token |-> objToken]
    ELSE NoSource
Resolved(ok, source, calls) == [ok |-> ok, source |-> source, calls |-> calls]
\* resolveExportSource, given what getWikiNode answers if it is asked
resolveExportSource(item, node) ==
    IF item.kind = "docx" THEN Resolved(TRUE, [kind |-> "docx", token |-> item.token], <<>>)
    ELSE IF item.kind # "wiki" THEN Resolved(TRUE, NoSource, <<>>)
    ELSE IF resolveWikiObjectSource(item.objKind, item.objToken) # NoSource
    THEN Resolved(TRUE, resolveWikiObjectSource(item.objKind, item.objToken), <<>>)
    ELSE IF ~node.ok THEN Resolved(FALSE, NoSource, <<"getWikiNode">>)
    ELSE Resolved(TRUE, resolveWikiObjectSource(node.objType, node.objToken), <<"getWikiNode">>)

\* Map.get and Map.set on the entries of a Map
MapHas(entries, key) == \E i \in 1..Len(entries) : entries[i].key = key
MapGet(entries, key) == entries[CHOOSE i \in 1..Len(entries) : entries[i].key = key].value
MapSet(entries, key, value) ==
    IF MapHas(entries, key)
    THEN [i \in 1..Len(entries) |->
             IF entries[i].key = key THEN [key |-> key, value |-> value] ELSE entries[i]]
    ELSE Append(entries, [key |-> key, value |-> value])

ExportTitles == {<<>>, <<"a">>}
ExportItems ==
    {Item(resourceId("wiki", "a"), ti, o) :
        ti \in ExportTitles, o \in {NoObj, <<"docx", "b">>, <<"file", "f">>, <<"sheet", "s">>}}
    \cup {Item(resourceId("wiki", "b"), <<"a">>, <<"file", "f">>)}
    \cup {Item(resourceId("docx", "b"), ti, NoObj) : ti \in ExportTitles}
    \cup {Item(resourceId("sheet", "a"), <<"a">>, NoObj)}
ExportRelations ==
    {[parentId |-> p.id, childId |-> c.id] : p \in ExportItems, c \in ExportItems}
BadManifests == {[state |-> st, documents |-> <<>>, tree |-> <<>>] : st \in {"badJson", "badShape"}}

\* `${join(outputDirPath, ...pathSegments)}.md`, below the output directory
targetPath(pathSegments) == pathSegments \o << <<".md">> >>
PlanPaths(entries) == {targetPath(entries[i].pathSegments) : i \in 1..Len(entries)}

ExportInit ==
    /\ exportPc = "start"
    /\ manifest \in BadManifests \cup Manifests(ExportItems, MaxExportDocuments,
                                                ExportRelations, MaxExportRelations)
    /\ disk \in {{}, PlanPaths(buildExportPlan(manifest.documents, manifest.tree))}
    /\ plan = <<>>
    /\ markdownCache = <<>>
    /\ exportLog = <<>>
    /\ outcomes = <<>>
    /\ exportWarnings = <<>>
    /\ written = 0
    /\ skipped = 0
    /\ CallIdle
    /\ CrawlIdle
    /\ TreeIdle
    /\ MergeIdle
    /\ ClientIdle

notExportVars == <<callVars, crawlVars, treeVars, mergeVars, clientVars>>

\* loadDiscoverResult, had it left out the schema check
loadDiscoverResult_NoShapeCheck(file) == file.state # "badJson"
\* loadDiscoverResult returns: the file is JSON and has the manifest's shape
loadDiscoverResult(file) == file.state \notin {"badJson", "badShape"}

\* loadDiscoverResult and buildExportPlan
LoadManifest ==
    /\ exportPc = "start"
    /\ IF ~loadDiscoverResult(manifest)
       THEN exportPc' = "thrown" /\ UNCHANGED plan
       ELSE exportPc' = "loop" /\ plan' = buildExportPlan(manifest.documents, manifest.tree)
    /\ UNCHANGED <<manifest, markdownCache, disk, exportLog, outcomes, exportWarnings,
                   written, skipped, notExportVars>>

sequenceNo == Len(outcomes) + 1
entry == plan[sequenceNo]
Logged(calls, target) ==
    [i \in 1..Len(calls) |-> [op |-> calls[i], target |-> target, sequence |-> sequenceNo]]
\* the entry ends skipped: a skip with its warning, or the catch block
Skip(status, text, logged) ==
    /\ skipped' = skipped + 1
    /\ exportWarnings' = Append(exportWarnings, [id |-> entry.item.id, text |-> text])
    /\ outcomes' = Append(outcomes, [id |-> entry.item.id, status |-> status,
                                     written |-> written, skipped |-> skipped + 1])
    /\ exportLog' = exportLog \o logged
    /\ UNCHANGED <<written, exportPc>>

\* the catch block, had it thrown the error again
Caught_Rethrow(logged) ==
    /\ exportPc' = "thrown"
    /\ UNCHANGED <<skipped, exportWarnings, outcomes, exportLog, written>>
\* the catch block of the loop body
Caught(logged) == Skip("error", "Failed to export", logged)

\* removeFileIfExists, had it left the file in place
removeFileIfExists_Keep(files, path) == files
\* removeFileIfExists when unlink succeeds or reports ENOENT
removeFileIfExists(files, path) == files \ {path}

\* let markdown = markdownCache.get(cacheKey); if (!markdown) ...
Cached(entries, cacheKey) == MapHas(entries, cacheKey) /\ MapGet(entries, cacheKey) # <<>>

\* one iteration of the loop over the plan
ProcessEntry ==
    /\ exportPc = "loop"
    /\ sequenceNo <= Len(plan)
    /\ \E node \in LiveNodes :
        LET found == resolveExportSource(entry.item, node)
            source == found.source
            looked == Logged(found.calls, << <<entry.item.token>> >>)
            cacheKey == resourceId(source.kind, source.token)
            path == targetPath(entry.pathSegments)
        IN IF ~found.ok
           THEN Caught(looked) /\ UNCHANGED <<markdownCache, disk>>
           ELSE IF source = NoSource
           THEN Skip("skip", "no supported export source", looked)
                /\ UNCHANGED <<markdownCache, disk>>
           ELSE \E fetched \in IF Cached(markdownCache, cacheKey)
                               THEN {Fetched(TRUE, MapGet(markdownCache, cacheKey), <<>>)}
                               ELSE Fetches(source, entry.item.title) :
                LET calls == looked \o Logged(fetched.calls, << <<source.token>> >>)
                IN IF ~fetched.ok
                   THEN Caught(calls)
                        /\ UNCHANGED <<markdownCache, disk>>
                   ELSE /\ markdownCache' = IF Cached(markdownCache, cacheKey) THEN markdownCache
                                            ELSE MapSet(markdownCache, cacheKey, fetched.markdown)
                        /\ \E fsOk \in BOOLEAN :
                            IF ~hasMarkdownBodyContent(fetched.markdown)
                            THEN IF fsOk
                                 THEN /\ disk' = removeFileIfExists(disk, path)
                                      /\ Skip("skip", "markdown has no body content",
                                              calls \o Logged(<<"unlink">>, path))
                                 ELSE /\ UNCHANGED disk
                                      /\ Caught(calls \o Logged(<<"unlink">>, path))
                            ELSE IF fsOk
                                 THEN /\ disk' = disk \cup {path}
                                      /\ written' = written + 1
                                      /\ outcomes' = Append(outcomes,
                                             [id |-> entry.item.id, status |-> "success",
                                              written |-> written + 1, skipped |-> skipped])
                                      /\ exportLog' = exportLog \o calls
                                                      \o Logged(<<"writeFile">>, path)
                                      /\ UNCHANGED <<skipped, exportWarnings, exportPc>>
                                 ELSE /\ UNCHANGED disk
                                      /\ Caught(calls \o Logged(<<"writeFile">>, path))
    /\ UNCHANGED <<manifest, plan, notExportVars>>

\* the loop is over: the summary is returned
ReturnSummary ==
    /\ exportPc = "loop"
    /\ sequenceNo > Len(plan)
    /\ exportPc' = "done"
    /\ UNCHANGED <<manifest, plan, markdownCache, disk, exportLog, outcomes, exportWarnings,
                   written, skipped, notExportVars>>

ExportNext ==
    \/ LoadManifest
    \/ ProcessEntry
    \/ ReturnSummary

SpecExport == ExportInit /\ [][ExportNext]_vars

\* the client calls that fetch content, and the cache key of the source they fetch
FetchOps == {"getDocxBlocks", "getDocxRawContent", "downloadDriveFile"}
KeyFetched(call) ==
    resourceId(IF call.op = "downloadDriveFile" THEN "file" ELSE "docx", call.target[1][1])
Added(before, after) == SubSeq(after, Len(before) + 1, Len(after))

\* C12: within one exportMarkdown run no content request is made for a source
\* whose Markdown an earlier entry of the run fetched and cached, whatever that
\* Markdown was, the empty one included.
C12_Original ==
    [][\A call \in Range(Added(exportLog, exportLog')) :
          call.op \in FetchOps => ~MapHas(markdownCache, KeyFetched(call))]_vars

Did(op) == \E call \in Range(Added(exportLog, exportLog')) : call.op = op
Ended == outcomes'[Len(outcomes')]

\* C13 as stated: after an entry whose Markdown has no body content is processed,
\* no file exists at its target path, nothing was written for it, and it counts
\* as skipped, not written.
C13_Original ==
    [][Did("unlink") =>
          /\ targetPath(entry.pathSegments) \notin disk'
          /\ ~Did("writeFile")
          /\ written' = written /\ skipped' = skipped + 1]_vars

\* C13 as amended: for an entry whose Markdown has no body content nothing is
\* written and the entry counts as skipped, not written; its target path is
\* unlinked, and when the unlink succeeds or finds no file, no file exists at the
\* target path afterwards and the entry ends as a skip; when the unlink fails for
\* another reason the files stay as they were and the entry ends as an error.
C13_NoBodySkipped ==
    [][Did("unlink") =>
          /\ ~Did("writeFile")
          /\ written' = written /\ skipped' = skipped + 1
          /\ Ended.status \in {"skip", "error"}
          /\ Ended.status = "skip" => targetPath(entry.pathSegments) \notin disk'
          /\ Ended.status = "error" => disk' = disk]_vars

\* the first of two entries had no body content: its file of an earlier run is
\* gone, the file of the second entry is still there
C13_Witness ==
    /\ Len(plan) = 2 /\ Len(outcomes) = 1
    /\ outcomes[1].status = "skip"
    /\ exportWarnings[1].text = "markdown has no body content"
    /\ disk = {targetPath(plan[2].pathSegments)}
    /\ plan[1].pathSegments # plan[2].pathSegments

\* C14: a failure while exporting one plan entry never aborts exportMarkdown:
\* the entry gets a warning naming it and counts as skipped, the entries that
\* follow are processed in plan order, the loop can always go on, and the call
\* returns after the last entry; it throws for an unusable manifest only.
C14_FailureContained ==
    /\ [](exportPc = "thrown" => manifest.state # "ok" /\ outcomes = <<>>)
    /\ [](exportPc = "loop" => ENABLED ExportNext)
    /\ [](exportPc = "done" => Len(outcomes) = Len(plan))
    /\ [](\A i \in 1..Len(outcomes) : outcomes[i].id = plan[i].item.id)
    /\ [][Len(outcomes') > Len(outcomes) /\ Ended.status # "success" =>
             /\ exportPc' = "loop"
             /\ skipped' = skipped + 1 /\ written' = written
             /\ Len(exportWarnings') = Len(exportWarnings) + 1
             /\ exportWarnings'[Len(exportWarnings')].id = entry.item.id]_vars

\* the first entry failed, the second was written, and the summary was returned
C14_Witness ==
    /\ exportPc = "done"
    /\ Len(plan) = 2
    /\ outcomes[1].status = "error" /\ outcomes[2].status = "success"
    /\ skipped = 1 /\ written = 1
    /\ Len(exportWarnings) = 1

\* the two phases of the program, each started on its own input
PhasesInit == CrawlInit \/ ExportInit
PhasesNext == CrawlNext \/ ExportNext
SpecPhases == PhasesInit /\ [][PhasesNext]_vars

\* C15: discoverDocuments with a root URL that does not parse throws before any
\* API request and any progress event, and exportMarkdown with a manifest that
\* is invalid JSON or has the wrong shape throws before any API request, file
\* write or file deletion; neither throws on another input.
C15_InputErrors ==
    /\ (pc # "idle" /\ parseFeishuResource(rootUrl) = NoResource) =>
          /\ pc \in {"start", "thrown"}
          /\ fetchLog = <<>> /\ lastCalls = NoCalls
          /\ sequence = 0 /\ lastEvent = NoEvent
          /\ queue = <<>> /\ documents = <<>>
    /\ pc = "thrown" => parseFeishuResource(rootUrl) = NoResource
    /\ (exportPc # "idle" /\ manifest.state \in {"badJson", "badShape"}) =>
          /\ exportPc \in {"start", "thrown"}
          /\ exportLog = <<>> /\ outcomes = <<>>
          /\ plan = <<>> /\ markdownCache = <<>>
    /\ exportPc = "thrown" => manifest.state \in {"badJson", "badShape"}

\* exportMarkdown threw on a manifest of the wrong shape
C15_Witness ==
    /\ exportPc = "thrown"
    /\ manifest.state = "badShape"
    /\ exportLog = <<>>

\* the manifest record of the entry carries an object kind and token; they name
\* a docx or a file
Recorded(item) == item.objKind # Undef /\ item.objToken # Undef
RecordedSource(item) == Recorded(item) /\ item.objKind \in {"docx", "file"}
FetchCalls == {call \in Range(Added(exportLog, exportLog')) : call.op \in FetchOps}
FetchedFrom(kind, token) ==
    \A call \in FetchCalls : KeyFetched(call) = resourceId(kind, token)
NoSourceSkip ==
    /\ Ended.status = "skip"
    /\ exportWarnings'[Len(exportWarnings')].text = "no supported export source"

\* C19 as stated, its third part: the live node lookup is issued only for a wiki
\* entry whose recorded object kind/token is absent.
C19_Original ==
    [][Did("getWikiNode") => entry.item.kind = "wiki" /\ ~Recorded(entry.item)]_vars

\* C19 as amended: a docx entry uses its own token; a wiki entry whose record
\* carries an object kind/token resolving to docx or file uses that source with
\* no live node lookup; the live node lookup is issued only for a wiki entry
\* whose recorded object kind/token is absent or resolves to neither docx nor
\* file; an entry that resolves to neither a docx nor a file source is skipped
\* with a warning and nothing is fetched or written for it.
C19_SourceResolution ==
    [][Len(outcomes') > Len(outcomes) =>
          /\ entry.item.kind = "docx" =>
                ~Did("getWikiNode") /\ FetchedFrom("docx", entry.item.token)
          /\ (entry.item.kind = "wiki" /\ RecordedSource(entry.item)) =>
                ~Did("getWikiNode") /\ FetchedFrom(entry.item.objKind, entry.item.objToken)
          /\ Did("getWikiNode") => entry.item.kind = "wiki" /\ ~RecordedSource(entry.item)
          /\ entry.item.kind \notin {"docx", "wiki"} => NoSourceSkip /\ exportLog' = exportLog
          /\ NoSourceSkip =>
                /\ FetchCalls = {} /\ ~Did("writeFile") /\ ~Did("unlink")
                /\ disk' = disk /\ markdownCache' = markdownCache
                /\ skipped' = skipped + 1]_vars

\* a wiki entry recorded as a sheet was looked up live, resolved to docx b and
\* was written from it
C19_Witness ==
    /\ Len(outcomes) = 1
    /\ plan[1].item.kind = "wiki" /\ plan[1].item.objKind = "sheet"
    /\ outcomes[1].status = "success"
    /\ exportLog[1].op = "getWikiNode"
    /\ exportLog[2].op = "getDocxBlocks" /\ exportLog[2].target = << <<"b">> >>

\* C16: each document id occurs in at most one entry of the export plan, also
\* when the tree holds a document under several parents.
C16_Original ==
    called = "returned" /\ "documents" \in DOMAIN args =>
        \A i, j \in 1..Len(returned) : i # j => returned[i].item.id # returned[j].item.id

\* C17: no two plan entries under the same parent get the same segment, whatever
\* the sibling titles (titles ending in -2 included), so no two plan entries have
\* the same target file path.
C17_Original ==
    called = "returned" /\ "documents" \in DOMAIN args =>
        \A i, j \in 1..Len(returned) :
            i # j => targetPath(returned[i].pathSegments) # targetPath(returned[j].pathSegments)

\* C18: the segment sanitizePathSegment returns is a safe single file name: it
\* holds none of the characters \ / : * ? " < > |, neither starts nor ends with
\* '-', does not end with '.', is not empty and is neither '.' nor '..'.
C18_Original ==
    called = "returned" /\ args \in Strings(TitleChars, MaxTitleLen) =>
        /\ returned # <<>>
        /\ \A i \in 1..Len(returned) : returned[i] \notin IllegalChars
        /\ returned[1] # "-"
        /\ returned[Len(returned)] \notin {"-", "."}
        /\ returned \notin {<<".">>, <<".", ".">>}

(***************************************************************************)
(* The block loop of renderDocxMarkdown, as far as list markers go.  A     *)
(* block is its type, the id of its parent (the position of the parent in  *)
(* the block list, 0 for none, a position past the end for an id no block  *)
(* has), the number readOrderedNumber finds (0 for none), and whether its  *)
(* text is non-empty.  The id of a block is its position.                  *)
(***************************************************************************)
MaxBlocks == 3
OrderHints == {0, 5}
ListBlocks == [blockType : {"ordered", "bullet", "text"}, parentId : 0..MaxBlocks,
               children : {{}}, order : OrderHints, text : BOOLEAN]
BlockLists == UNION {[1..k -> ListBlocks] : k \in 1..MaxBlocks}

\* the parent of each block: the one it declares or, when it declares none,
\* the first block whose child list names it
createBlockRenderContext(blocks) ==
    [i \in 1..Len(blocks) |->
        LET linking == {p \in 1..Len(blocks) : i \in blocks[p].children}
        IN IF blocks[i].parentId # 0 \/ linking = {} THEN blocks[i]
           ELSE [blocks[i] EXCEPT
                    !.parentId = CHOOSE p \in linking : \A q \in linking : p <= q]]

isListBlockType(blockType) == blockType \in {"bullet", "ordered", "todo"}

RECURSIVE ListAncestors(_, _, _)
\* the while loop of getListDepth
ListAncestors(blocks, cursor, seen) ==
    IF cursor = 0 \/ cursor \in seen \/ cursor > Len(blocks) THEN 0
    ELSE (IF isListBlockType(blocks[cursor].blockType) THEN 1 ELSE 0)
         + ListAncestors(blocks, blocks[cursor].parentId, seen \cup {cursor})
getListDepth(blocks, i) ==
    IF ~isListBlockType(blocks[i].blockType) THEN 0
    ELSE ListAncestors(blocks, blocks[i].parentId, {})

\* the group key, had it been one key for the whole document
getOrderedMarkerGroupKey_Root(block, listDepth) == <<"root", 0, 0>>
getOrderedMarkerGroupKey(block, listDepth) ==
    IF block.parentId # 0 THEN <<"parent", block.parentId, listDepth>>
    ELSE <<"root", 0, listDepth>>

resolveOrderedListMarker(block, listDepth, counters) ==
    LET groupKey == getOrderedMarkerGroupKey(block, listDepth)
        previous == IF groupKey \in DOMAIN counters THEN counters[groupKey] ELSE 0
        marker == IF block.order > 0 THEN block.order ELSE previous + 1
    IN [marker |-> marker,
        counters |-> [k \in DOMAIN counters \cup {groupKey} |->
                         IF k = groupKey THEN marker ELSE counters[k]]]

RECURSIVE AncestorOfType(_, _, _, _)
\* the while loop of hasAncestorBlockType
AncestorOfType(blocks, cursor, seen, blockType) ==
    IF cursor = 0 \/ cursor \in seen \/ cursor > Len(blocks) THEN FALSE
    ELSE \/ blocks[cursor].blockType = blockType
         \/ AncestorOfType(blocks, blocks[cursor].parentId, seen \cup {cursor}, blockType)
hasAncestorBlockType(blocks, i, blockType) ==
    AncestorOfType(blocks, blocks[i].parentId, {}, blockType)

\* a cell of a rendered table row: the text of a block, the empty string, '---'
EmptyCell == [kind |-> "empty", of |-> 0]
RuleCell == [kind |-> "rule", of |-> 0]
\* a cell names a block by its id and shows the text of that block; an id no
\* block has is shown as it is
resolveTableCell(blocks, value) ==
    IF value \in 1..Len(blocks)
    THEN IF blocks[value].text THEN [kind |-> "text", of |-> value] ELSE EmptyCell
    ELSE [kind |-> "literal", of |-> value]
\* table.cells, row by row; rows without cells are dropped
readTableMatrix(blocks, i) ==
    LET NonEmpty(row) == Len(row) > 0
    IN SelectSeq([r \in 1..Len(blocks[i].cells) |->
                     [c \in 1..Len(blocks[i].cells[r]) |->
                         resolveTableCell(blocks, blocks[i].cells[r][c])]], NonEmpty)
\* the row, had it been left as short as it is
padRow_Keep(row, width) == row
\* while (next.length < width) next.push('')
padRow(row, width) ==
    [c \in 1..width |-> IF c <= Len(row) THEN row[c] ELSE EmptyCell]
renderTableBlock(blocks, i) ==
    LET matrix == readTableMatrix(blocks, i)
        width == CHOOSE w \in {Len(matrix[r]) : r \in 1..Len(matrix)} :
                     \A r \in 1..Len(matrix) : Len(matrix[r]) <= w
        normalizedMatrix == [r \in 1..Len(matrix) |-> padRow(matrix[r], width)]
    IN IF Len(matrix) = 0 THEN <<>>
       ELSE <<normalizedMatrix[1], [c \in 1..width |-> RuleCell]>>
            \o SubSeq(normalizedMatrix, 2, Len(normalizedMatrix))

NoLine == [rendered |-> FALSE, depth |-> 0, marker |-> 0, rows |-> <<>>]
RECURSIVE renderBlocks(_, _, _, _)
\* for (const block of options.blocks), from the i-th block on: the line of each
\* block, with its list depth and its ordered marker (0 when it has none), or
\* the rows of its table
renderBlocks(blocks, i, counters, lines) ==
    IF i > Len(blocks) THEN lines
    ELSE LET block == blocks[i]
             kept == IF block.blockType # "ordered" THEN <<>> ELSE counters
             listDepth == getListDepth(blocks, i)
             resolved == resolveOrderedListMarker(block, listDepth, kept)
             tableLines == renderTableBlock(blocks, i)
         IN IF hasAncestorBlockType(blocks, i, "table")
            THEN renderBlocks(blocks, i + 1, counters, Append(lines, NoLine))
            ELSE IF block.blockType = "table"
            THEN renderBlocks(blocks, i + 1, kept,
                              Append(lines, [rendered |-> tableLines # <<>>, depth |-> 0,
                                             marker |-> 0, rows |-> tableLines]))
            ELSE IF ~block.text THEN renderBlocks(blocks, i + 1, kept, Append(lines, NoLine))
            ELSE IF block.blockType = "ordered"
            THEN renderBlocks(blocks, i + 1, resolved.counters,
                              Append(lines, [rendered |-> TRUE, depth |-> listDepth,
                                             marker |-> resolved.marker, rows |-> <<>>]))
            ELSE renderBlocks(blocks, i + 1, kept,
                              Append(lines, [rendered |-> TRUE, depth |-> listDepth,
                                             marker |-> 0, rows |-> <<>>]))

RenderInit ==
    /\ called = "renderBlocks"
    /\ args \in BlockLists
    /\ returned = <<>>
    /\ ExportIdle
    /\ CrawlIdle
    /\ TreeIdle
    /\ MergeIdle
    /\ ClientIdle

RenderCall ==
    /\ called = "renderBlocks"
    /\ returned' = renderBlocks(createBlockRenderContext(args), 1, <<>>, <<>>)
    /\ called' = "returned"
    /\ UNCHANGED <<args, exportVars, crawlVars, treeVars, mergeVars, clientVars>>

SpecRender == RenderInit /\ [][RenderCall]_vars

\* the ordered blocks rendered before block i, after the last block before i
\* that is not ordered, in the group of block i
LastBreak(i) ==
    IF \E k \in 1..(i - 1) : args[k].blockType # "ordered"
    THEN CHOOSE k \in 1..(i - 1) :
             /\ args[k].blockType # "ordered"
             /\ \A m \in (k + 1)..(i - 1) : args[m].blockType = "ordered"
    ELSE 0
Earlier(i) ==
    {j \in (LastBreak(i) + 1)..(i - 1) :
        returned[j].rendered /\ args[j].parentId = args[i].parentId}
Numbered(i) ==
    IF args[i].order > 0 THEN returned[i].marker = args[i].order
    ELSE IF Earlier(i) = {} THEN returned[i].marker = 1
    ELSE \E j \in Earlier(i) :
            /\ \A m \in Earlier(i) : m <= j
            /\ returned[i].marker = returned[j].marker + 1

MaxIndentBlocks == 3
IndentBlocks == [blockType : {"bullet", "ordered", "todo", "text"},
                 parentId : 0..MaxIndentBlocks, children : {{}}, order : {0},
                 text : BOOLEAN]
\* the block lists in which at most one block has a child list, of one id
WithChild(blocks, p, c) ==
    [i \in 1..Len(blocks) |-> IF i = p THEN [blocks[i] EXCEPT !.children = {c}]
                              ELSE blocks[i]]
ChildLinks(k) == {<<0, 0>>} \cup ((1..k) \X (1..k))

\* '  '.repeat(listDepth)
Indent(listDepth) == 2 * listDepth
\* compacted.join('\n').trim(): the first line of the text loses the spaces it
\* starts with; with a title the first line is the title line
trimBody(title, lines) ==
    LET renderedAt == {i \in 1..Len(lines) : lines[i].rendered}
    IN IF title \/ renderedAt = {} THEN lines
       ELSE [lines EXCEPT ![CHOOSE i \in renderedAt : \A j \in renderedAt : i <= j].indent = 0]

renderListLines(title, blocks) ==
    LET blockLines == renderBlocks(createBlockRenderContext(blocks), 1, <<>>, <<>>)
    IN trimBody(title, [i \in 1..Len(blockLines) |->
                           [rendered |-> blockLines[i].rendered,
                            indent |-> Indent(blockLines[i].depth),
                            marker |-> blockLines[i].marker]])

IndentInit ==
    /\ called = "renderDocxMarkdown"
    /\ \E k \in 1..MaxIndentBlocks :
          \E l \in [1..k -> IndentBlocks], link \in ChildLinks(k), title \in BOOLEAN :
              args = [title |-> title, blocks |-> WithChild(l, link[1], link[2])]
    /\ returned = <<>>
    /\ ExportIdle
    /\ CrawlIdle
    /\ TreeIdle
    /\ MergeIdle
    /\ ClientIdle

IndentCall ==
    /\ called = "renderDocxMarkdown"
    /\ returned' = renderListLines(args.title, args.blocks)
    /\ called' = "returned"
    /\ UNCHANGED <<args, exportVars, crawlVars, treeVars, mergeVars, clientVars>>

SpecIndent == IndentInit /\ [][IndentCall]_vars

\* the parent link of block i: declared by the block, or taken from the child
\* list of the first block that names it
ParentOf(i) ==
    IF args.blocks[i].parentId # 0 THEN args.blocks[i].parentId
    ELSE IF \E p \in 1..Len(args.blocks) : i \in args.blocks[p].children
    THEN CHOOSE p \in 1..Len(args.blocks) :
             /\ i \in args.blocks[p].children
             /\ \A q \in 1..(p - 1) : i \notin args.blocks[q].children
    ELSE 0
RECURSIVE Up(_, _)
\* the block n parent links above block i, 0 when the links end before
Up(i, n) ==
    IF i \notin 1..Len(args.blocks) THEN 0
    ELSE IF n = 0 THEN i ELSE Up(ParentOf(i), n - 1)
ListAncestorsOf(i) ==
    {a \in 1..Len(args.blocks) :
        /\ \E n \in 1..Len(args.blocks) : Up(i, n) = a
        /\ args.blocks[a].blockType \in {"bullet", "ordered", "todo"}}

\* C21 as stated: every bullet, ordered or todo block that is rendered starts
\* with exactly two spaces per ancestor that is a list-type block, parent links
\* being declared by the child or back-filled from a parent's child list.
C21_Original ==
    called = "returned" /\ "blocks" \in DOMAIN args =>
        \A i \in 1..Len(args.blocks) :
            args.blocks[i].blockType \in {"bullet", "ordered", "todo"} /\ returned[i].rendered
                => returned[i].indent = 2 * Cardinality(ListAncestorsOf(i))

(***************************************************************************)
(* Tables: the lines renderDocxMarkdown's loop gets from a block list with *)
(* table blocks.  Every table block of a list carries the same cell        *)
(* matrix, rows of block ids.                                              *)
(***************************************************************************)
MaxTableBlocks == 3
MaxTableRows == 2
MaxTableColumns == 2
TableBlocks == [blockType : {"table", "text"}, parentId : 0..MaxTableBlocks,
                children : {{}}, order : {0}, text : BOOLEAN, cells : {<<>>}]
CellIds == {2, MaxTableBlocks + 1}
TableRows == UNION {[1..n -> CellIds] : n \in 0..MaxTableColumns}
TableMatrices == UNION {[1..n -> TableRows] : n \in 0..MaxTableRows}
WithCells(blocks, matrix) ==
    [i \in 1..Len(blocks) |-> IF blocks[i].blockType = "table"
                              THEN [blocks[i] EXCEPT !.cells = matrix] ELSE blocks[i]]

TableInit ==
    /\ called = "renderTable"
    /\ \E k \in 1..MaxTableBlocks :
          \E l \in [1..k -> TableBlocks], matrix \in TableMatrices :
              args = WithCells(l, matrix)
    /\ returned = <<>>
    /\ ExportIdle
    /\ CrawlIdle
    /\ TreeIdle
    /\ MergeIdle
    /\ ClientIdle

TableCall ==
    /\ called = "renderTable"
    /\ returned' = renderBlocks(createBlockRenderContext(args), 1, <<>>, <<>>)
    /\ called' = "returned"
    /\ UNCHANGED <<args, exportVars, crawlVars, treeVars, mergeVars, clientVars>>

SpecTable == TableInit /\ [][TableCall]_vars

RECURSIVE UpTable(_, _)
\* the block n parent links above block i, 0 when the links end before
UpTable(i, n) ==
    IF i \notin 1..Len(args) THEN 0
    ELSE IF n = 0 THEN i ELSE UpTable(args[i].parentId, n - 1)
UnderTable(i) ==
    \E n \in 1..Len(args) :
        UpTable(i, n) # 0 /\ args[UpTable(i, n)].blockType = "table"
\* the rows of the matrix of table i that have a cell
MatrixRows(i) == {r \in 1..Len(args[i].cells) : Len(args[i].cells[r]) > 0}
Widths(i) == {Len(args[i].cells[r]) : r \in MatrixRows(i)}
\* row r of the rendered table shows the n-th row of the matrix that has a
\* cell, then empty cells
Shows(i, r, n) ==
    LET source == args[i].cells[Nth(MatrixRows(i), n)]
    IN \A c \in 1..Len(returned[i].rows[r]) :
          returned[i].rows[r][c] =
              IF c > Len(source) THEN EmptyCell ELSE resolveTableCell(args, source[c])

\* C22: a block with a table among its ancestors emits no line; a table block
\* that is not itself under a table and whose matrix has a row with cells
\* renders one header row, one row of '---', then the remaining rows, every row
\* as wide as the widest row of the matrix.
C22_Tables ==
    called = "returned" =>
        \A i \in 1..Len(args) :
            /\ UnderTable(i) => ~returned[i].rendered /\ returned[i].rows = <<>>
            /\ args[i].blockType = "table" /\ ~UnderTable(i) /\ MatrixRows(i) # {} =>
                   LET rows == returned[i].rows
                   IN /\ returned[i].rendered
                      /\ Len(rows) = Cardinality(MatrixRows(i)) + 1
                      /\ \A r \in 1..Len(rows) :
                            \A w \in Widths(i) : Len(rows[r]) >= w
                      /\ \A r \in 1..Len(rows) : Len(rows[r]) \in Widths(i)
                      /\ \A c \in 1..Len(rows[2]) : rows[2][c] = RuleCell
                      /\ Shows(i, 1, 1)
                      /\ \A r \in 3..Len(rows) : Shows(i, r, r - 1)

\* a table of two rows of different widths, with the text of its child in the
\* header, and the child itself rendering nothing
C22_Witness ==
    /\ called = "returned"
    /\ Len(args) = 2
    /\ args[1].blockType = "table" /\ args[1].parentId = 0
    /\ args[2].parentId = 1 /\ args[2].text
    /\ args[1].cells = << <<2>>, <<2, 2>> >>
    /\ returned[1].rows = << <<[kind |-> "text", of |-> 2], EmptyCell>>,
                             <<RuleCell, RuleCell>>,
                             <<[kind |-> "text", of |-> 2], [kind |-> "text", of |-> 2]>> >>
    /\ ~returned[2].rendered

(***************************************************************************)
(* hasMarkdownBodyContent on Markdown texts given line by line, a line a   *)
(* string of characters: the lines are trimmed, the blank ones skipped,    *)
(* and the others told apart by /^#{1,6}\s+/.                              *)
(***************************************************************************)
MaxLineLen == 3
MaxLines == 3
LineChars == {"#", " ", "a"}
MarkdownTexts == UNION {[1..n -> Strings(LineChars, MaxLineLen)] : n \in 0..MaxLines}

\* the test, had the marker needed no space after it
isMarkdownHeadingLine_NoSpace(line) == Len(line) > 0 /\ line[1] = "#"
isMarkdownHeadingLine(line) ==
    \E n \in 1..6 :
        /\ n < Len(line)
        /\ \A i \in 1..n : line[i] = "#"
        /\ line[n + 1] = " "
\* the kinds of the non-blank lines of a text, as the loop of
\* hasMarkdownBodyContent tells them apart
lineKinds(markdown) ==
    LET trimmed == [i \in 1..Len(markdown) |-> StripEnd(StripStart(markdown[i], {" "}), {" "})]
        nonBlank == {i \in 1..Len(markdown) : trimmed[i] # <<>>}
    IN [n \in 1..Cardinality(nonBlank) |->
           IF isMarkdownHeadingLine(trimmed[Nth(nonBlank, n)]) THEN "heading" ELSE "text"]

BodyInit ==
    /\ called = "hasMarkdownBodyContent"
    /\ \E n \in 0..MaxLines : args \in [1..n -> Strings(LineChars, MaxLineLen)]
    /\ returned = <<>>
    /\ ExportIdle
    /\ CrawlIdle
    /\ TreeIdle
    /\ MergeIdle
    /\ ClientIdle

BodyCall ==
    /\ called = "hasMarkdownBodyContent"
    /\ returned' = <<hasMarkdownBodyContent(lineKinds(args))>>
    /\ called' = "returned"
    /\ UNCHANGED <<args, exportVars, crawlVars, treeVars, mergeVars, clientVars>>

SpecBody == BodyInit /\ [][BodyCall]_vars

\* a line with something other than spaces on it
NonBlank(line) == \E i \in 1..Len(line) : line[i] # " "
\* a heading line: after the spaces it starts with, one to six '#', a space,
\* and something after
HeadingLine(line) ==
    \E first \in 1..Len(line), n \in 1..6 :
        /\ \A i \in 1..(first - 1) : line[i] = " "
        /\ first + n <= Len(line)
        /\ \A i \in first..(first + n - 1) : line[i] = "#"
        /\ line[first + n] = " "
        /\ \E i \in (first + n + 1)..Len(line) : line[i] # " "
HeadingLines == {i \in 1..Len(args) : HeadingLine(args[i])}
OtherLines == {i \in 1..Len(args) : NonBlank(args[i]) /\ ~HeadingLine(args[i])}

\* C23 as stated: hasMarkdownBodyContent is false for every text whose
\* non-blank lines are all heading lines, however many, and true as soon as one
\* non-blank line is not a heading line.
C23_Original ==
    called = "returned" =>
        /\ OtherLines = {} => returned = <<FALSE>>
        /\ OtherLines # {} => returned = <<TRUE>>

\* C23 as amended: hasMarkdownBodyContent is false exactly for the texts with
\* at most one heading line and no other non-blank line; it is true as soon as
\* one non-blank line is not a heading line, and for two heading lines or more.
C23_HeadingOnly ==
    called = "returned" =>
        returned = <<OtherLines # {} \/ Cardinality(HeadingLines) > 1>>

\* a title line, blank lines, and nothing else
C23_Witness ==
    /\ called = "returned"
    /\ args = << <<"#", " ", "a">>, <<>>, <<" ">> >>
    /\ returned = <<FALSE>>

\* C24: hasMarkdownBodyContent is true for a text of two heading lines or more
\* and no other text, false for a text of exactly one heading line and no
\* other text.
C24_HeadingCount ==
    called = "returned" /\ OtherLines = {} =>
        /\ Cardinality(HeadingLines) >= 2 => returned = <<TRUE>>
        /\ Cardinality(HeadingLines) = 1 => returned = <<FALSE>>

\* two heading lines with a blank line between them
C24_Witness ==
    /\ called = "returned"
    /\ args = << <<"#", " ", "a">>, <<>>, <<"#", " ", "#">> >>
    /\ returned = <<TRUE>>

(***************************************************************************)
(* getBlockType.  A block is the set of payload keys on its record, its    *)
(* block_type when that is a string (NoTag when it is not), its type when  *)
(* that is a string, and its block_type when that is a number (NoCode when *)
(* it is not).                                                             *)
(***************************************************************************)
NoTag == "none"
NoCode == 0
PayloadTypes == <<"heading1", "heading2", "heading3", "heading4", "heading5", "heading6",
                  "bullet", "ordered", "code", "quote", "table", "todo", "callout">>
PayloadKeys == {"heading2", "code", "todo", "callout", "text"}
TypeTags == {NoTag, "CODE", "quote", "image"}
TypeCodes == {NoCode, 2, 3, 4, 5, 6, 7, 8, 9, 10, 11, 12, 13, 14, 31, 32}
TypedBlocks ==
    {b \in [payload : SUBSET PayloadKeys, block_type_string : TypeTags,
            type : {NoTag, "bullet"}, block_type : TypeCodes] :
        b.block_type_string = NoTag \/ b.block_type = NoCode}

\* toLowerCase on the tags above
toLowerCase(tag) == IF tag = "CODE" THEN "code" ELSE tag

getPayloadBlockType(block) ==
    IF \E n \in 1..Len(PayloadTypes) : PayloadTypes[n] \in block.payload
    THEN PayloadTypes[CHOOSE n \in 1..Len(PayloadTypes) :
                          /\ PayloadTypes[n] \in block.payload
                          /\ \A m \in 1..(n - 1) : PayloadTypes[m] \notin block.payload]
    ELSE NoTag
getNormalizedBlockType(block) ==
    IF block.block_type_string # NoTag THEN toLowerCase(block.block_type_string)
    ELSE IF block.type # NoTag THEN toLowerCase(block.type)
    ELSE NoTag
getNumericBlockType(block) == block.block_type

\* the block type, had the numeric code been looked at before the payload
getBlockType_CodeFirst(block) ==
    LET numeric == getNumericBlockType(block)
    IN IF numeric = 11 THEN "code"
       ELSE IF numeric = 14 THEN "todo"
       ELSE IF getPayloadBlockType(block) # NoTag THEN getPayloadBlockType(block)
       ELSE IF getNormalizedBlockType(block) # NoTag THEN getNormalizedBlockType(block)
       ELSE "paragraph"
getBlockType(block) ==
    LET numeric == getNumericBlockType(block)
    IN IF getPayloadBlockType(block) # NoTag THEN getPayloadBlockType(block)
       ELSE IF getNormalizedBlockType(block) # NoTag THEN getNormalizedBlockType(block)
       ELSE IF numeric = 3 THEN "heading1"
       ELSE IF numeric = 4 THEN "heading2"
       ELSE IF numeric = 5 THEN "heading3"
       ELSE IF numeric = 6 THEN "heading4"
       ELSE IF numeric = 7 THEN "heading5"
       ELSE IF numeric = 8 THEN "heading6"
       ELSE IF numeric = 9 THEN "bullet"
       ELSE IF numeric = 10 THEN "ordered"
       ELSE IF numeric = 13 THEN "ordered"
       ELSE IF numeric = 11 THEN "code"
       ELSE IF numeric = 12 THEN "quote"
       ELSE IF numeric = 31 THEN "table"
       ELSE IF numeric = 14 THEN "todo"
       ELSE "paragraph"

\* the form renderBlock gives a block of a type that has text: the table, the
\* heading, the list item, the quote, the fenced code, or the text as it is
renderBlockForm(blockType) ==
    IF blockType \in {"table", "heading1", "heading2", "heading3", "heading4", "heading5",
                      "heading6", "bullet", "ordered", "todo", "quote", "code"}
    THEN blockType
    ELSE "paragraph"

BlockTypeInit ==
    /\ called = "getBlockType"
    /\ args \in TypedBlocks
    /\ returned = <<>>
    /\ ExportIdle
    /\ CrawlIdle
    /\ TreeIdle
    /\ MergeIdle
    /\ ClientIdle

BlockTypeCall ==
    /\ called = "getBlockType"
    /\ returned' = <<renderBlockForm(getBlockType(args))>>
    /\ called' = "returned"
    /\ UNCHANGED <<args, exportVars, crawlVars, treeVars, mergeVars, clientVars>>

SpecBlockType == BlockTypeInit /\ [][BlockTypeCall]_vars

\* the types with a form of their own, the payload keys that stand for a block
\* type (a callout has no form of its own), and the type of a numeric code
TypeKeys == {"heading1", "heading2", "heading3", "heading4", "heading5", "heading6",
             "bullet", "ordered", "code", "quote", "table", "todo"}
TypePayloads == (args.payload \cap TypeKeys) \cup (args.payload \cap {"callout"})
CodeTable ==
    [code \in TypeCodes |->
        CASE code \in 3..8 -> <<"heading1", "heading2", "heading3", "heading4", "heading5",
                                "heading6">>[code - 2]
          [] code = 9 -> "bullet"
          [] code \in {10, 13} -> "ordered"
          [] code = 11 -> "code"
          [] code = 12 -> "quote"
          [] code = 14 -> "todo"
          [] code = 31 -> "table"
          [] OTHER -> "paragraph"]
Tagged == args.block_type_string # NoTag \/ args.type # NoTag
TagOf == IF args.block_type_string # NoTag THEN args.block_type_string ELSE args.type

\* C25: a block renders as the type of a type-specific payload key on its
\* record whatever its type tag and its numeric code are; without such a key,
\* as the type its string tag names, whatever its numeric code is; without
\* either, as the type of its numeric code (3-8 heading 1-6, 9 bullet, 10 and 13
\* ordered, 11 code, 12 quote, 14 todo, 31 table); and as a paragraph when
\* nothing names one of these types.
C25_TypePrecedence ==
    called = "returned" /\ "payload" \in DOMAIN args =>
        /\ TypePayloads # {} =>
               \E key \in TypePayloads :
                   returned[1] = (IF key = "callout" THEN "paragraph" ELSE key)
        /\ TypePayloads = {} /\ Tagged =>
               returned[1] = (IF TagOf \in {"CODE", "code"} THEN "code"
                              ELSE IF TagOf \in TypeKeys THEN TagOf ELSE "paragraph")
        /\ TypePayloads = {} /\ ~Tagged =>
               returned[1] = CodeTable[args.block_type]

\* numeric type 14 with a code payload: fenced code, not a todo item
C25_Witness ==
    /\ called = "returned"
    /\ "payload" \in DOMAIN args
    /\ args.block_type = 14
    /\ args.payload = {"code"}
    /\ returned = <<"code">>

(***************************************************************************)
(* normalizeMarkdownOutput on the text of a rendered code block and the    *)
(* lines after it.  A text is its lines; the lines are drawn from samples  *)
(* of each kind the function tells apart; <fence> stands for the three      *)
(* backquotes of a code fence.                                             *)
(***************************************************************************)
MaxCodeLines == 3
MaxLinesAfter == 1
SampleLines == {"<fence>", "<fence>md", "#  a", "# a", "1. a", "**a **", "a"}

isCodeFenceLine(trimmedLine) == trimmedLine \in {"<fence>", "<fence>md"}
\* the broken bold marker of the sample is mended
normalizeBrokenMarkdownMarkers(line) == IF line = "**a **" THEN "**a**" ELSE line
\* the text of a heading line loses its bold markers and its runs of spaces
normalizeHeadingText(line) == IF line = "#  a" THEN "# a" ELSE line

RECURSIVE normalizeLines(_, _, _)
\* for (const line of lines), from the i-th line on
normalizeLines(lines, i, insideFencedCodeBlock) ==
    IF i > Len(lines) THEN <<>>
    ELSE IF isCodeFenceLine(lines[i])
    THEN <<lines[i]>> \o normalizeLines(lines, i + 1, ~insideFencedCodeBlock)
    ELSE IF insideFencedCodeBlock
    THEN <<lines[i]>> \o normalizeLines(lines, i + 1, insideFencedCodeBlock)
    ELSE <<normalizeHeadingText(normalizeBrokenMarkdownMarkers(lines[i]))>>
         \o normalizeLines(lines, i + 1, insideFencedCodeBlock)
normalizeMarkdownOutput(markdown) == normalizeLines(markdown, 1, FALSE)

\* the fence with the language, the text, the fence; then the lines of the
\* blocks after it
renderCodeBlock(text, after) == <<"<fence>md">> \o text \o <<"<fence>">> \o after

NormalizeInit ==
    /\ called = "normalizeMarkdownOutput"
    /\ \E n \in 1..MaxCodeLines, m \in 0..MaxLinesAfter :
          args \in [text : [1..n -> SampleLines], after : [1..m -> SampleLines]]
    /\ returned = <<>>
    /\ ExportIdle
    /\ CrawlIdle
    /\ TreeIdle
    /\ MergeIdle
    /\ ClientIdle

NormalizeCall ==
    /\ called = "normalizeMarkdownOutput"
    /\ returned' = normalizeMarkdownOutput(renderCodeBlock(args.text, args.after))
    /\ called' = "returned"
    /\ UNCHANGED <<args, exportVars, crawlVars, treeVars, mergeVars, clientVars>>

SpecNormalize == NormalizeInit /\ [][NormalizeCall]_vars

\* C26 as stated: every line of the code placed between the fences the renderer
\* emits comes out as it went in, and no list line, inside or outside the
\* fences, comes out with another marker.
C26_Original ==
    called = "returned" /\ "after" \in DOMAIN args =>
        /\ Len(returned) = Len(args.text) + Len(args.after) + 2
        /\ \A i \in 1..Len(args.text) : returned[i + 1] = args.text[i]
        /\ \A i \in 1..Len(returned) :
              renderCodeBlock(args.text, args.after)[i] = "1. a" => returned[i] = "1. a"

(***************************************************************************)
(* extractFeishuLinks.  The input is the sequence of the URLs the regular  *)
(* expression matches in the strings of the object, in the order the       *)
(* strings are visited; a URL is given with what follows its path, a query *)
(* string or a fragment.                                                   *)
(***************************************************************************)
MaxMatches == 3
MatchedUrls ==
    [host : {FeishuHost, OtherHost}, rawKind : {"docx", "DOCX", "sheets", "mail"},
     token : {"a", BadToken}, rest : {"", "?x", "#f"}]

RECURSIVE extractFeishuLinks_All(_, _, _)
\* the links, had they been pushed on an array
extractFeishuLinks_All(matches, i, links) ==
    IF i > Len(matches) THEN links
    ELSE LET found == parseFeishuResource(matches[i])
         IN extractFeishuLinks_All(matches, i + 1,
                IF found # NoResource THEN Append(links, found.url) ELSE links)
RECURSIVE extractFeishuLinks(_, _, _)
\* for (const match of matches), from the i-th match on; links is the Set, in
\* the order of insertion
extractFeishuLinks(matches, i, links) ==
    IF i > Len(matches) THEN links
    ELSE LET found == parseFeishuResource(matches[i])
         IN extractFeishuLinks(matches, i + 1,
                IF found # NoResource /\ found.url \notin Range(links)
                THEN Append(links, found.url) ELSE links)

LinksInit ==
    /\ called = "extractFeishuLinks"
    /\ \E n \in 0..MaxMatches : args \in [1..n -> MatchedUrls]
    /\ returned = <<>>
    /\ ExportIdle
    /\ CrawlIdle
    /\ TreeIdle
    /\ MergeIdle
    /\ ClientIdle

LinksCall ==
    /\ called = "extractFeishuLinks"
    /\ returned' = extractFeishuLinks(args, 1, <<>>)
    /\ called' = "returned"
    /\ UNCHANGED <<args, exportVars, crawlVars, treeVars, mergeVars, clientVars>>

SpecLinks == LinksInit /\ [][LinksCall]_vars

\* the matches that are Feishu resources, and the first match a link comes from
Resources == {i \in 1..Len(args) : parseFeishuResource(args[i]) # NoResource}
FirstMatch(u) ==
    CHOOSE i \in Resources :
        /\ parseFeishuResource(args[i]).url = u
        /\ \A j \in Resources : parseFeishuResource(args[j]).url = u => i <= j
SamePath(a, b) == a.host = b.host /\ a.rawKind = b.rawKind /\ a.token = b.token

\* C27: extractFeishuLinks returns the canonical URLs of the resources among
\* its matches, each once, in the order of their first occurrence; matches
\* that differ only in query string or fragment give one entry; and every
\* returned URL parses to itself, with the kind and token of its match.
C27_Links ==
    called = "returned" =>
        /\ Distinct(returned)
        /\ Range(returned) = {parseFeishuResource(args[i]).url : i \in Resources}
        /\ \A a, b \in 1..Len(returned) :
              a < b => FirstMatch(returned[a]) < FirstMatch(returned[b])
        /\ \A i, j \in Resources :
              SamePath(args[i], args[j]) =>
                  \E n \in 1..Len(returned) :
                      /\ returned[n] = parseFeishuResource(args[i]).url
                      /\ returned[n] = parseFeishuResource(args[j]).url
        /\ \A n \in 1..Len(returned) :
              LET again == parseFeishuResource(returned[n])
                  first == parseFeishuResource(args[FirstMatch(returned[n])])
              IN /\ again # NoResource
                 /\ again.url = returned[n]
                 /\ again.kind = first.kind /\ again.token = first.token
                 /\ returned[n].host = args[FirstMatch(returned[n])].host
                 /\ DOMAIN returned[n] = {"host", "rawKind", "token"}

\* a sheets link, a docx link with a query string, the docx link again with a
\* fragment: two entries, in that order
C27_Witness ==
    /\ called = "returned"
    /\ Len(args) = 3
    /\ args[1].rawKind = "sheets" /\ args[2].rawKind = "docx" /\ args[3].rawKind = "docx"
    /\ args[2].rest = "?x" /\ args[3].rest = "#f"
    /\ returned = <<MakeUrl(FeishuHost, "sheets", "a"), MakeUrl(FeishuHost, "docx", "a")>>

(***************************************************************************)
(* The retriable flag of one failed requestOnce call, over more statuses   *)
(* and codes than the client specification draws.                          *)
(***************************************************************************)
FailureStatuses == {302, 400, 401, 403, 404, 408, 409, 418, 429, 499,
                    500, 501, 502, 503, 504, 599}
AttemptFailures ==
    {[kind |-> k, status |-> NoStatus, code |-> 0] : k \in {"envelope", "data"}}
    \cup {[kind |-> "api", status |-> NoStatus, code |-> c] :
             c \in FEISHU_RATE_LIMIT_CODES \cup {OtherApiCode}}
    \cup {[kind |-> "fetch", status |-> NoStatus, code |-> 0]}
    \cup {[kind |-> "fetch", status |-> st, code |-> c] :
             st \in FailureStatuses, c \in FEISHU_RATE_LIMIT_CODES \cup {0, OtherApiCode}}

RetriableInit ==
    /\ called = "requestOnce"
    /\ args \in AttemptFailures
    /\ returned = <<>>
    /\ ExportIdle
    /\ CrawlIdle
    /\ TreeIdle
    /\ MergeIdle
    /\ ClientIdle

\* requestOnce throws FeishuRequestError(message, retriable)
RetriableCall ==
    /\ called = "requestOnce"
    /\ returned' = <<Retriable(args)>>
    /\ called' = "returned"
    /\ UNCHANGED <<args, exportVars, crawlVars, treeVars, mergeVars, clientVars>>

SpecRetriable == RetriableInit /\ [][RetriableCall]_vars

\* C28: a failed attempt is flagged retriable exactly when the envelope's
\* non-zero code is a rate-limit code, or the transport failure has status 429,
\* a status of 500 or more, or a rate-limit code in its body; envelope and data
\* validation failures, other API codes, other 4xx statuses and transport
\* failures without a status are not.
C28_RetriableFlag ==
    called = "returned" /\ "status" \in DOMAIN args =>
        /\ returned[1] <=>
              \/ args.kind = "api" /\ args.code \in FEISHU_RATE_LIMIT_CODES
              \/ args.kind = "fetch" /\ args.status = 429
              \/ args.kind = "fetch" /\ args.status >= 500
              \/ args.kind = "fetch" /\ args.code \in FEISHU_RATE_LIMIT_CODES
        /\ args.kind \in {"envelope", "data"} => ~returned[1]
        /\ args.kind = "api" /\ args.code \notin FEISHU_RATE_LIMIT_CODES => ~returned[1]
        /\ args.kind = "fetch" /\ args.status \in 400..499 /\ args.status # 429
              /\ args.code \notin FEISHU_RATE_LIMIT_CODES => ~returned[1]
        /\ args.kind = "fetch" /\ args.status = NoStatus => ~returned[1]

\* an HTTP 403 whose body carries the rate-limit code is flagged retriable
C28_Witness ==
    /\ called = "returned"
    /\ args = [kind |-> "fetch", status |-> 403, code |-> 99991400]
    /\ returned = <<TRUE>>

(***************************************************************************)
(* getWikiNode.  args is what the service answers to each candidate path:  *)
(* a node, a node without node_token, or a failure with its message;       *)
(* returned is the state of the loop: the candidates requested, the        *)
(* errors pushed, whether the loop broke, and how the call ended.          *)
(***************************************************************************)
WIKI_GET_NODE_QUERY_TEMPLATES == <<"token={token}", "obj_type=wiki&token={token}",
                                   "obj_token={token}">>
FailureMessages == {"field validation failed", "Field Validation Failed",
                    "Feishu request failed"}
CandidateAnswers ==
    {[ok |-> TRUE, node |-> n, message |-> ""] : n \in BOOLEAN}
    \cup {[ok |-> FALSE, node |-> FALSE, message |-> m] : m \in FailureMessages}

\* the test, had every failure let the loop go on
shouldTryNextWikiGetNodeCandidate_Always(message) == TRUE
\* message.toLowerCase().includes('field validation failed')
shouldTryNextWikiGetNodeCandidate(message) ==
    message \in {"field validation failed", "Field Validation Failed"}

WikiNodeInit ==
    /\ called = "getWikiNode"
    /\ args \in [1..Len(WIKI_GET_NODE_QUERY_TEMPLATES) -> CandidateAnswers]
    /\ returned = [requested |-> <<>>, errors |-> <<>>, broke |-> FALSE, ended |-> "no"]
    /\ ExportIdle
    /\ CrawlIdle
    /\ TreeIdle
    /\ MergeIdle
    /\ ClientIdle

\* one turn of for (const path of candidates)
TryCandidate ==
    /\ called = "getWikiNode"
    /\ returned.ended = "no"
    /\ ~returned.broke
    /\ Len(returned.requested) < Len(WIKI_GET_NODE_QUERY_TEMPLATES)
    /\ LET path == WIKI_GET_NODE_QUERY_TEMPLATES[Len(returned.requested) + 1]
           response == args[Len(returned.requested) + 1]
           requested == Append(returned.requested, path)
       IN returned' =
              IF response.ok /\ response.node
              THEN [returned EXCEPT !.requested = requested, !.ended = "node"]
              ELSE IF response.ok
              THEN [returned EXCEPT !.requested = requested,
                                    !.errors = Append(@, <<path, "empty node">>)]
              ELSE [returned EXCEPT !.requested = requested,
                                    !.errors = Append(@, <<path, response.message>>),
                                    !.broke = ~shouldTryNextWikiGetNodeCandidate(response.message)]
    /\ UNCHANGED <<called, args, exportVars, crawlVars, treeVars, mergeVars, clientVars>>

\* return normalized
ReturnNode ==
    /\ called = "getWikiNode"
    /\ returned.ended = "node"
    /\ called' = "returned"
    /\ UNCHANGED <<args, returned, exportVars, crawlVars, treeVars, mergeVars, clientVars>>

\* throw new Error(... errors.join(' | '))
ThrowErrors ==
    /\ called = "getWikiNode"
    /\ returned.ended = "no"
    /\ returned.broke \/ Len(returned.requested) = Len(WIKI_GET_NODE_QUERY_TEMPLATES)
    /\ returned' = [returned EXCEPT !.ended = "thrown"]
    /\ called' = "returned"
    /\ UNCHANGED <<args, exportVars, crawlVars, treeVars, mergeVars, clientVars>>

WikiNodeNext == TryCandidate \/ ReturnNode \/ ThrowErrors
SpecWikiNode == WikiNodeInit /\ [][WikiNodeNext]_vars

\* the candidates are requested in the order of the templates
InTemplateOrder ==
    /\ Len(returned.requested) <= Len(WIKI_GET_NODE_QUERY_TEMPLATES)
    /\ \A i \in 1..Len(returned.requested) :
          returned.requested[i] = WIKI_GET_NODE_QUERY_TEMPLATES[i]
\* the lookup ends with the node of the last candidate requested
FirstNode ==
    /\ returned.ended = "node" =>
          /\ Len(returned.requested) > 0
          /\ args[Len(returned.requested)].ok /\ args[Len(returned.requested)].node
    /\ \A i \in 1..Len(returned.requested) :
          args[i].ok /\ args[i].node => i = Len(returned.requested) /\ returned.ended # "thrown"
\* the error thrown lists the failure of every candidate requested
ErrorsListed ==
    returned.ended = "thrown" =>
        /\ Len(returned.errors) = Len(returned.requested)
        /\ \A i \in 1..Len(returned.errors) :
              /\ returned.errors[i][1] = returned.requested[i]
              /\ returned.errors[i][2] = (IF args[i].ok THEN "empty node" ELSE args[i].message)

\* C29 as stated: the candidates are tried in the fixed order; the first
\* normalizable node is returned without a later candidate being tried; a
\* later candidate is tried only after a failure whose message contains 'field
\* validation failed', any other outcome ending the lookup; and the error
\* thrown lists the failure of every candidate.
C29_Original ==
    "requested" \in DOMAIN returned =>
        /\ InTemplateOrder
        /\ FirstNode
        /\ \A i \in 1..(Len(returned.requested) - 1) :
              ~args[i].ok /\ args[i].message = "field validation failed"
        /\ ErrorsListed

\* C29 as amended: the candidates are tried in the fixed order; the first
\* normalizable node is returned without a later candidate being tried; a later
\* candidate is tried only after a candidate that answered with a node that
\* cannot be normalized or failed with a message that contains, in any letter
\* case, 'field validation failed'; any other failure ends the lookup without
\* a further candidate; when no candidate succeeds one error is thrown that
\* lists the failure of every candidate tried.
C29_Candidates ==
    "requested" \in DOMAIN returned =>
        /\ InTemplateOrder
        /\ FirstNode
        /\ \A i \in 1..(Len(returned.requested) - 1) :
              \/ args[i].ok /\ ~args[i].node
              \/ ~args[i].ok /\ args[i].message \in {"field validation failed",
                                                     "Field Validation Failed"}
        /\ \A i \in 1..Len(returned.requested) :
              ~args[i].ok /\ args[i].message = "Feishu request failed"
                  => i = Len(returned.requested) /\ returned.ended # "node"
        /\ called = "returned" /\ returned.ended = "thrown" =>
              \/ Len(returned.requested) = Len(WIKI_GET_NODE_QUERY_TEMPLATES)
              \/ ~args[Len(returned.requested)].ok
        /\ called = "returned" => returned.ended \in {"node", "thrown"}
        /\ ErrorsListed

\* the first candidate answered without a node token, the second failed the
\* field validation, the third failed otherwise: all three are listed
C29_Witness ==
    /\ called = "returned"
    /\ "requested" \in DOMAIN returned
    /\ returned.ended = "thrown"
    /\ returned.errors = << <<"token={token}", "empty node">>,
                            <<"obj_type=wiki&token={token}", "field validation failed">>,
                            <<"obj_token={token}", "Feishu request failed">> >>

(***************************************************************************)
(* The page loop of getDocxBlocks and listWikiChildNodes.  args is the     *)
(* method called; returned is the state of the loop: the page_token sent   *)
(* with each request, the pages received, the items collected, the token   *)
(* for the next request, and how the call ended.  The service reports more *)
(* pages, with a token, MaxListingPages - 1 times at most.                 *)
(***************************************************************************)
MaxListingPages == 3
NoPageToken == ""       \* no page_token, or an empty one
PageTokens == {NoPageToken, "p", "q"}
\* a block, or a raw wiki node with or without node_token
RawItems == {[id |-> "a", node_token |-> t] : t \in BOOLEAN}
ItemPages == [ok : {TRUE}, items : {<<>>} \cup {<<i>> : i \in RawItems},
              has_more : BOOLEAN, page_token : PageTokens]
RejectedPage == [ok |-> FALSE, items |-> <<>>, has_more |-> FALSE, page_token |-> NoPageToken]

\* the test, had the flag alone decided it
hasNextPage_FlagOnly(response) == response.has_more
\* neither break is taken: has_more is set and page_token is not empty
hasNextPage(response) == response.has_more /\ response.page_token # NoPageToken
\* listWikiChildNodes keeps the raw nodes normalizeWikiNode accepts;
\* getDocxBlocks keeps every item
collectItems(method, pageItems) ==
    LET Normalizes(node) == node.node_token
    IN IF method = "listWikiChildNodes" THEN SelectSeq(pageItems, Normalizes) ELSE pageItems

PagesInit ==
    /\ called = "paging"
    /\ args \in {"getDocxBlocks", "listWikiChildNodes"}
    /\ returned = [requests |-> <<>>, pages |-> <<>>, collected |-> <<>>,
                   pageToken |-> NoPageToken, ended |-> "no"]
    /\ ExportIdle
    /\ CrawlIdle
    /\ TreeIdle
    /\ MergeIdle
    /\ ClientIdle

\* one turn of for (;;): the request, the items, the two breaks
RequestPage ==
    /\ called = "paging"
    /\ returned.ended = "no"
    /\ \E response \in ItemPages \cup {RejectedPage} :
          /\ Len(returned.pages) + 1 >= MaxListingPages => ~hasNextPage(response)
          /\ returned' =
                IF ~response.ok
                THEN [returned EXCEPT !.requests = Append(@, returned.pageToken),
                                      !.pages = Append(@, response),
                                      !.ended = "thrown"]
                ELSE [returned EXCEPT !.requests = Append(@, returned.pageToken),
                                      !.pages = Append(@, response),
                                      !.collected = @ \o collectItems(args, response.items),
                                      !.pageToken = IF response.has_more
                                                    THEN response.page_token ELSE @,
                                      !.ended = IF hasNextPage(response) THEN "no" ELSE "break"]
    /\ UNCHANGED <<called, args, exportVars, crawlVars, treeVars, mergeVars, clientVars>>

\* return blocks, return nodes, or the rejection of the request
ReturnItems ==
    /\ called = "paging"
    /\ returned.ended \in {"break", "thrown"}
    /\ returned' = [returned EXCEPT !.ended = IF @ = "break" THEN "returned" ELSE @]
    /\ called' = "returned"
    /\ UNCHANGED <<args, exportVars, crawlVars, treeVars, mergeVars, clientVars>>

PagesNext == RequestPage \/ ReturnItems
SpecPages == PagesInit /\ [][PagesNext]_vars /\ WF_vars(PagesNext)

RECURSIVE PagesItems(_, _)
\* the items of the first n pages, in page order
PagesItems(n, wanted) ==
    IF n = 0 THEN <<>>
    ELSE PagesItems(n - 1, wanted)
         \o SelectSeq(returned.pages[n].items, LAMBDA i : i.node_token \in wanted)
\* page k + 1 is requested only after a page k with has_more and a non-empty
\* token, and with that token; the first request carries no token
TokensFollowed ==
    /\ Len(returned.requests) = Len(returned.pages)
    /\ Len(returned.requests) > 0 => returned.requests[1] = NoPageToken
    /\ \A k \in 1..(Len(returned.pages) - 1) :
          /\ returned.pages[k].ok /\ returned.pages[k].has_more
          /\ returned.pages[k].page_token # NoPageToken
          /\ returned.requests[k + 1] = returned.pages[k].page_token
\* a page without has_more or without token is the last page requested, and
\* the call returns after it
StopsAtLastPage ==
    /\ \A k \in 1..Len(returned.pages) :
          returned.pages[k].ok
              /\ (~returned.pages[k].has_more \/ returned.pages[k].page_token = NoPageToken)
          => k = Len(returned.pages) /\ returned.ended \in {"break", "returned"}
    /\ returned.ended = "returned" =>
          LET last == returned.pages[Len(returned.pages)]
          IN last.ok /\ (~last.has_more \/ last.page_token = NoPageToken)

\* C30 as stated: page k + 1 is requested only if page k reported has_more and
\* supplied a non-empty page_token, and with exactly that token; the loop stops
\* at the first page without either; the items of all fetched pages are
\* returned, concatenated in page order; and the call ends.
C30_Original ==
    /\ []("pages" \in DOMAIN returned =>
             /\ TokensFollowed
             /\ StopsAtLastPage
             /\ returned.ended = "returned" =>
                    returned.collected = PagesItems(Len(returned.pages), BOOLEAN))
    /\ <>(called = "returned")

\* C30 as amended: the same, the items returned by listWikiChildNodes being
\* the raw nodes that carry a node token (the others are dropped), those of
\* getDocxBlocks every item.
C30_Pagination ==
    /\ []("pages" \in DOMAIN returned =>
             /\ TokensFollowed
             /\ StopsAtLastPage
             /\ returned.ended = "returned" =>
                    returned.collected =
                        PagesItems(Len(returned.pages),
                                   IF args = "listWikiChildNodes" THEN {TRUE} ELSE BOOLEAN))
    /\ <>(called = "returned")

\* three pages: the second requested with the token of the first, the third
\* with the token of the second, the third reporting more pages without a token
C30_Witness ==
    /\ called = "returned"
    /\ "pages" \in DOMAIN returned
    /\ args = "listWikiChildNodes"
    /\ returned.ended = "returned"
    /\ returned.requests = <<NoPageToken, "p", "q">>
    /\ returned.pages[3].has_more /\ returned.pages[3].page_token = NoPageToken
    /\ Len(returned.collected) = 2
    /\ \E k \in 1..3 : \E i \in 1..Len(returned.pages[k].items) :
          ~returned.pages[k].items[i].node_token

(***************************************************************************)
(* getTenantAccessToken: the token cache.  Two requests are handed to the  *)
(* limiter together; each attempt of requestOnce asks for the token, which *)
(* is the cached one or the one a token request returns.  Time is counted  *)
(* in seconds, in steps of TickSeconds.                                    *)
(***************************************************************************)
TickSeconds == 30
MaxNow == 120
Expires == {100, 210}       \* the expire field of a token response, in seconds
JobNames == {"first", "second"}
NoTokenCache == [token |-> 0, expiredAt |-> 0]
IdleJob == [st |-> "idle", attempt |-> 0, now |-> 0, tries |-> 0, expire |-> 0, bearer |-> 0]

\* the lifetime, had it no floor
tokenLifetime_NoFloor(expire) == expire - 120
\* Math.max(60, response.expire - 120)
tokenLifetime(expire) == IF expire - 120 > 60 THEN expire - 120 ELSE 60

\* this.tokenCache && now < this.tokenCache.expiredAt
cacheHit(cache, now) == cache # NoTokenCache /\ now < cache.expiredAt

TokenInit ==
    /\ called = "token"
    /\ args = <<>>
    /\ returned = [now |-> 0, tokenCache |-> NoTokenCache, limiter |-> <<>>,
                   jobs |-> [j \in JobNames |-> IdleJob],
                   issued |-> 0, refreshes |-> 0, rejected |-> FALSE, submittedAt |-> 0,
                   submittedEmpty |-> FALSE]
    /\ ExportIdle
    /\ CrawlIdle
    /\ TreeIdle
    /\ MergeIdle
    /\ ClientIdle

TokenFrame == UNCHANGED <<called, args, exportVars, crawlVars, treeVars, mergeVars, clientVars>>
JobRuns(j) == returned.jobs[j].st \in {"attempt", "refresh", "authed", "call"}

\* two calls of request() before either is awaited
SubmitRequests ==
    /\ \A j \in JobNames : returned.jobs[j].st \in {"idle", "settled", "rejected"}
    /\ returned' = [returned EXCEPT !.jobs = [j \in JobNames |-> [IdleJob EXCEPT !.st = "queued"]],
                                    !.limiter = <<"first", "second">>,
                                    !.refreshes = 0,
                                    !.rejected = FALSE,
                                    !.submittedAt = returned.now,
                                    !.submittedEmpty = (returned.tokenCache = NoTokenCache)]
    /\ TokenFrame

\* limiter.schedule starts the oldest job when none runs
LaunchJob ==
    /\ returned.limiter # <<>>
    /\ \A j \in JobNames : ~JobRuns(j)
    /\ returned' = [returned EXCEPT !.jobs[Head(returned.limiter)].st = "attempt",
                                    !.jobs[Head(returned.limiter)].attempt = 1,
                                    !.limiter = Tail(returned.limiter)]
    /\ TokenFrame

\* getTenantAccessToken up to its await: the cached token, or a token request
GetToken(j) ==
    /\ returned.jobs[j].st = "attempt"
    /\ returned' =
          IF cacheHit(returned.tokenCache, returned.now)
          THEN [returned EXCEPT !.jobs[j].st = "authed",
                                !.jobs[j].bearer = returned.tokenCache.token]
          ELSE [returned EXCEPT !.jobs[j].st = "refresh",
                                !.jobs[j].now = returned.now,
                                !.jobs[j].tries = 1,
                                !.refreshes = @ + 1]
    /\ TokenFrame

\* the attempt of requestOnce rejects: pRetry tries again or the job rejects
JobAttemptFailed(j, failure) ==
    IF shouldRetryRequest(failure) /\ returned.jobs[j].attempt <= API_RETRY_COUNT
    THEN [returned EXCEPT !.jobs[j] = [IdleJob EXCEPT !.st = "attempt",
                                                      !.attempt = returned.jobs[j].attempt + 1]]
    ELSE [returned EXCEPT !.jobs[j] = [IdleJob EXCEPT !.st = "rejected"]]

\* the token request resolves: the cache is written
RefreshOk(j) ==
    /\ returned.jobs[j].st = "refresh"
    /\ \E expire \in Expires :
          returned' = [returned EXCEPT
                          !.tokenCache = [token |-> returned.issued + 1,
                                          expiredAt |-> returned.jobs[j].now
                                                        + tokenLifetime(expire)],
                          !.issued = @ + 1,
                          !.jobs[j].st = "authed",
                          !.jobs[j].expire = expire,
                          !.jobs[j].bearer = returned.issued + 1]
    /\ TokenFrame

\* an attempt of the token request fails: requestWithoutLimiter tries again,
\* or getTenantAccessToken throws and the attempt of the request fails with it
RefreshFail(j) ==
    /\ returned.jobs[j].st = "refresh"
    /\ \E failure \in Failures :
          returned' =
              IF shouldRetryRequest(failure) /\ returned.jobs[j].tries <= API_RETRY_COUNT
              THEN [returned EXCEPT !.jobs[j].tries = @ + 1]
              ELSE [JobAttemptFailed(j, failure) EXCEPT !.rejected = TRUE]
    /\ TokenFrame

\* ofetch is called with the Authorization header
CallStart(j) ==
    /\ returned.jobs[j].st = "authed"
    /\ returned' = [returned EXCEPT !.jobs[j].st = "call", !.jobs[j].now = 0,
                                    !.jobs[j].tries = 0, !.jobs[j].expire = 0]
    /\ TokenFrame

CallOk(j) ==
    /\ returned.jobs[j].st = "call"
    /\ returned' = [returned EXCEPT !.jobs[j] = [IdleJob EXCEPT !.st = "settled",
                                                           !.bearer = returned.jobs[j].bearer]]
    /\ TokenFrame

CallFail(j) ==
    /\ returned.jobs[j].st = "call"
    /\ \E failure \in Failures : returned' = JobAttemptFailed(j, failure)
    /\ TokenFrame

\* TickSeconds seconds pass
Elapse ==
    /\ called = "token"
    /\ returned.now < MaxNow
    /\ returned' = [returned EXCEPT !.now = @ + TickSeconds]
    /\ TokenFrame

TokenNext ==
    \/ called = "token" /\ SubmitRequests
    \/ called = "token" /\ LaunchJob
    \/ \E j \in JobNames : called = "token" /\ GetToken(j)
    \/ \E j \in JobNames : called = "token" /\ RefreshOk(j)
    \/ \E j \in JobNames : called = "token" /\ RefreshFail(j)
    \/ \E j \in JobNames : called = "token" /\ CallStart(j)
    \/ \E j \in JobNames : called = "token" /\ CallOk(j)
    \/ \E j \in JobNames : called = "token" /\ CallFail(j)
    \/ Elapse

SpecToken == TokenInit /\ [][TokenNext]_vars

Asks(j) == returned.jobs[j].st = "attempt" /\ returned'.jobs[j].st # "attempt"
Refreshed(j) == returned.jobs[j].st = "refresh" /\ returned'.jobs[j].st = "authed"
RefreshThrown(j) ==
    returned.jobs[j].st = "refresh" /\ returned'.jobs[j].st \in {"attempt", "rejected"}
Stale == returned.tokenCache = NoTokenCache \/ returned.now >= returned.tokenCache.expiredAt
\* the cache rule of one attempt, the expiry written by a refresh, the failed refresh
CacheRule ==
    \A j \in JobNames :
        /\ Asks(j) /\ Stale =>
              /\ returned'.jobs[j].st = "refresh"
              /\ returned'.refreshes = returned.refreshes + 1
        /\ Asks(j) /\ ~Stale =>
              /\ returned'.jobs[j].st = "authed"
              /\ returned'.jobs[j].bearer = returned.tokenCache.token
              /\ returned'.refreshes = returned.refreshes
              /\ returned'.tokenCache = returned.tokenCache
        /\ Refreshed(j) =>
              /\ returned'.tokenCache.token # returned.tokenCache.token
              /\ returned'.jobs[j].bearer = returned'.tokenCache.token
              /\ \E lifetime \in {60, returned'.jobs[j].expire - 120} :
                    /\ lifetime >= 60 /\ lifetime >= returned'.jobs[j].expire - 120
                    /\ returned'.tokenCache.expiredAt = returned.jobs[j].now + lifetime
        /\ RefreshThrown(j) =>
              /\ returned'.tokenCache = returned.tokenCache
              /\ returned'.jobs[j].bearer = 0
              /\ \/ returned'.jobs[j].st = "rejected"
                 \/ returned'.jobs[j].attempt = returned.jobs[j].attempt + 1
BothDone == \A j \in JobNames : returned.jobs[j].st \in {"settled", "rejected"}
OneOutstanding == Cardinality({j \in JobNames : returned.jobs[j].st = "refresh"}) <= 1

\* C31 as stated: an attempt requests a token exactly when the cache is empty
\* or now >= expiredAt and otherwise attaches the cached token; a successful
\* refresh stores the token with expiredAt = refresh start + max(60, expire - 120)
\* seconds; a failed refresh leaves the cache unchanged and fails the attempt;
\* and two requests submitted together with an empty cache cause exactly one
\* token request.
C31_Original ==
    /\ [][called = "token" => CacheRule]_vars
    /\ [](called = "token" /\ BothDone /\ returned.submittedEmpty => returned.refreshes = 1)

\* C31 as amended: the same, the last part being that two requests submitted
\* together with an empty cache never have two token requests outstanding at
\* once and cause at least one token request, and exactly one when no token
\* request is rejected and both requests end within 60 seconds of their
\* submission.
C31_TokenCache ==
    /\ [][called = "token" => CacheRule]_vars
    /\ [](called = "token" =>
             /\ OneOutstanding
             /\ BothDone /\ returned.submittedEmpty =>
                   /\ returned.refreshes >= 1
                   /\ ~returned.rejected /\ returned.now < returned.submittedAt + 60
                         => returned.refreshes = 1)

\* both requests are done after the first one refreshed the token with the
\* 60-second floor and the second one used the cached token
C31_Witness ==
    /\ called = "token"
    /\ BothDone
    /\ returned.submittedEmpty
    /\ returned.refreshes = 1
    /\ returned.tokenCache = [token |-> 1, expiredAt |-> 60]
    /\ returned.jobs["second"].bearer = 1
    /\ returned.jobs["second"].st = "settled"
    /\ returned.now = 30

(***************************************************************************)
(* The progress events of discoverDocuments.                               *)
(***************************************************************************)
TerminalStatuses == {"success", "skip", "warning", "error"}
Dequeues == pc = "loop" /\ queue # <<>> /\ queue' # queue
\* the events of one iteration: processing, then one terminal event, both
\* carrying the iteration's sequence number
OneIteration ==
    /\ Len(progress') = 2
    /\ progress'[1].status = "processing"
    /\ progress'[2].status \in TerminalStatuses
    /\ progress'[1].sequence = sequence'
    /\ progress'[2].sequence = sequence'
    /\ progress'[2] = emitProgress(documents', warnings', lastEvent')
\* the events continue the ones of the iteration before
Continues ==
    /\ progress = <<>> => progress'[1].sequence = 1
    /\ progress # <<>> =>
          /\ progress'[1].sequence = progress[2].sequence + 1
          /\ progress'[1].discovered >= progress[2].discovered
          /\ progress'[1].warnings >= progress[2].warnings
    /\ progress'[2].discovered >= progress'[1].discovered
    /\ progress'[2].warnings >= progress'[1].warnings
WarningAppended ==
    /\ Len(warnings') = Len(warnings) + 1
    /\ SubSeq(warnings', 1, Len(warnings)) = warnings

\* C34: every dequeued entry gets one processing event and then one terminal
\* event, with status success, skip, warning or error, before the next entry
\* is dequeued; the sequence numbers are 1, 2, 3, ... in dequeue order; the
\* discovered and warnings counts of the events never decrease; and a warning
\* is appended exactly when the terminal status is warning or error.
C34_Progress ==
    [][/\ Dequeues =>
            /\ sequence' = sequence + 1
            /\ OneIteration
            /\ Continues
            /\ progress'[2].status \in {"warning", "error"} <=> WarningAppended
            /\ progress'[2].status \in {"success", "skip"} <=> warnings' = warnings
       /\ ~Dequeues => UNCHANGED <<sequence, progress, warnings>>
      ]_vars

\* the second entry ended with an error, the first one without a warning
C34_Witness ==
    /\ Len(progress) = 2
    /\ progress[2].status = "error"
    /\ progress[2].sequence = 2
    /\ progress[1].warnings = 0
    /\ progress[2].warnings = 1
    /\ progress[2].discovered = 2

(***************************************************************************)
(* What one iteration of discoverDocuments appends to the queue.           *)
(***************************************************************************)
\* the entries behind the ones that were waiting
Appended == SubSeq(queue', Len(queue), Len(queue'))
KeepsOrder == Len(queue') >= Len(queue) - 1 /\ SubSeq(queue', 1, Len(queue) - 1) = Tail(queue)
Processed == documents'[Len(documents')]
Entries(urls, depth, hints) ==
    [i \in 1..Len(urls) |->
        [url |-> urls[i], depth |-> depth, parentId |-> nextId, titleHint |-> hints[i]]]
NoHints(urls) == [i \in 1..Len(urls) |-> Undef]
\* the URL of the object a node maps to, when its kind and token resolve
MappedUrls(wikiNode) ==
    IF wikiNode.objType = Undef \/ wikiNode.objToken = Undef THEN <<>>
    ELSE IF mapWikiObjectKind(wikiNode.objType) = "unknown" THEN <<>>
    ELSE <<MakeUrl(next.url.host, mapWikiObjectKind(wikiNode.objType), wikiNode.objToken)>>
ChildUrls(nodes) == [i \in 1..Len(nodes) |-> MakeUrl(next.url.host, "wiki", nodes[i].nodeToken)]
ChildHints(nodes) == [i \in 1..Len(nodes) |-> nodes[i].title]
DocxRule ==
    \E discovered \in DocxDiscoveries :
        /\ Processed.title = discovered.title
        /\ Appended = IF next.depth < maxDepth
                      THEN Entries(discovered.links, next.depth + 1, NoHints(discovered.links))
                      ELSE <<>>
WikiRule ==
    \E wikiNode \in WikiNodes :
        LET mapped == Entries(MappedUrls(wikiNode), next.depth,
                              [i \in 1..Len(MappedUrls(wikiNode)) |-> wikiNode.title])
        IN /\ Processed.objKind = wikiNode.objType
           /\ Processed.objToken = wikiNode.objToken
           /\ IF next.depth < maxDepth /\ wikiNode.spaceId # Undef
              THEN \E children \in ChildListings :
                      IF children.threw
                      THEN lastEvent'.status = "error" /\ Appended = mapped
                      ELSE /\ lastEvent'.status = "success"
                           /\ Appended = mapped \o Entries(ChildUrls(children.nodes),
                                                           next.depth + 1,
                                                           ChildHints(children.nodes))
              ELSE lastEvent'.status = "success" /\ Appended = mapped
\* getWikiNode rejected: nothing is known of the node
WikiUnread ==
    /\ lastEvent'.status = "error"
    /\ Processed.objKind = Undef
    /\ Appended = <<>>

\* C32: a docx processed at depth d < maxDepth appends each discovered link at
\* depth d + 1; a wiki node processed at depth d appends its mapped object (when
\* object kind and token resolve to a known kind) at depth d and, if
\* d < maxDepth and the node has a space id, each child node at depth d + 1;
\* every appended entry carries the processed item's id as parentId and goes to
\* the back of the queue; an item of another kind appends nothing and gets a
\* warning.
C32_EnqueueRule ==
    [][Dequeues =>
          /\ KeepsOrder
          /\ Len(documents') = Len(documents) => Appended = <<>>
          /\ Len(documents') > Len(documents) =>
                /\ Processed.id = nextId
                /\ \A i \in 1..Len(Appended) : Appended[i].parentId = Processed.id
                /\ Processed.kind = "docx" => DocxRule
                /\ Processed.kind = "wiki" => WikiRule \/ WikiUnread
                /\ Processed.kind \notin {"docx", "wiki"} =>
                      /\ Appended = <<>>
                      /\ lastEvent'.status = "warning"
                      /\ WarningAppended
      ]_vars

\* a wiki root left its mapped object at depth 0 and one child node at depth 1
\* in the queue
C32_Witness ==
    /\ Len(documents) = 1
    /\ documents[1].kind = "wiki"
    /\ Len(queue) = 2
    /\ queue[1].depth = 0 /\ queue[1].url.rawKind = "docx"
    /\ queue[2].depth = 1 /\ queue[2].url.rawKind = "wiki"
    /\ queue[1].parentId = documents[1].id
    /\ queue[2].parentId = documents[1].id

(***************************************************************************)
(* The title of a discovered item.                                         *)
(***************************************************************************)
\* C40 as stated: once an item has a title (from a title hint or from a
\* fetched title) no later processing replaces it with a missing value: the
\* item made from a queue entry with a title hint has a title, and the title
\* of an item of the map never becomes undefined.
C40_Original ==
    [][Dequeues =>
          /\ \A i \in 1..Len(documents) :
                documents[i].title # Undef => documents'[i].title # Undef
          /\ Len(documents') > Len(documents) /\ next.titleHint # Undef
                => Processed.title # Undef
      ]_vars

(***************************************************************************)
(* The tree of a DiscoverResult.                                           *)
(***************************************************************************)
RECURSIVE NodeIds(_)
NodeIds(node) == {node.id} \cup UNION {NodeIds(node.children[i]) : i \in 1..Len(node.children)}
ResultTreeIds == UNION {NodeIds(result.tree[i]) : i \in 1..Len(result.tree)}
ResultIds == {result.documents[i].id : i \in 1..Len(result.documents)}
\* a relation of the result leads to the document the crawl started from
RootIsChild == \E i \in 1..Len(result.relations) : result.relations[i].childId = RootId

\* C37 as stated: every document of the result is a node of its tree, whatever
\* the links (links back to the root and self-links included): the tree is not
\* empty when documents is not, and covers every discovered id.
C37_Original ==
    pc = "done" =>
        /\ result.documents # <<>> => result.tree # <<>>
        /\ ResultIds \subseteq ResultTreeIds

\* C37 as amended: every document of the result is a node of its tree unless
\* some discovered relation has the root document as its child (a document
\* links back to the root, or the root links to itself); in that case no
\* document is a root and the tree is empty.
C37_TreeCoverage ==
    pc = "done" =>
        /\ ResultTreeIds \subseteq ResultIds
        /\ IF RootIsChild THEN result.tree = <<>>
           ELSE /\ ResultIds \subseteq ResultTreeIds
                /\ result.documents # <<>> => result.tree # <<>>

\* the second document links to itself and is in the tree, under the root
C37_Witness ==
    /\ pc = "done"
    /\ Len(result.documents) = 2
    /\ ~RootIsChild
    /\ \E i \in 1..Len(result.relations) :
          /\ result.relations[i].childId = result.documents[2].id
          /\ result.relations[i].parentId = result.documents[2].id
    /\ Len(result.tree) = 1
    /\ ResultIds \subseteq ResultTreeIds

(***************************************************************************)
(* The export plan of a manifest discoverDocuments returned.  A title of   *)
(* the crawl is one character of a path segment.                           *)
(***************************************************************************)
ManifestItem(doc) ==
    Item(doc.id, IF doc.title = Undef THEN <<>> ELSE <<"a">>, <<doc.objKind, doc.objToken>>)
ManifestItems == [i \in 1..Len(result.documents) |-> ManifestItem(result.documents[i])]
ResultPlan == buildExportPlan(ManifestItems, result.tree)
Planned(id) == \E i \in 1..Len(ResultPlan) : ResultPlan[i].item.id = id
\* the document is the docx the wiki node maps to, and was found from that node
MappedChild(wiki, docx) ==
    /\ wiki.kind = "wiki" /\ docx.kind = "docx"
    /\ wiki.objToken # Undef /\ mapWikiObjectKind(wiki.objKind) = "docx"
    /\ wiki.objToken = docx.token
    /\ \E i \in 1..Len(result.relations) :
          result.relations[i] = [parentId |-> wiki.id, childId |-> docx.id]

\* C35 as stated: in the plan of a manifest the crawl produced, a docx that is
\* the mapped object of a wiki node and was discovered as that node's child has
\* no plan entry of its own, whether the plan is walked from the tree or, the
\* tree being empty, from the flat fallback.
C35_Original ==
    pc = "done" =>
        \A w, d \in Range(result.documents) : MappedChild(w, d) => ~Planned(d.id)

(***************************************************************************)
(* The documents a plan covers.                                            *)
(***************************************************************************)
ManifestTreeIds(m) == UNION {NodeIds(m.tree[i]) : i \in 1..Len(m.tree)}
\* some wiki document of the manifest maps to this docx page
MappedPage(m, doc) ==
    \E i \in 1..Len(m.documents) : isWikiMappedDocxChild(doc, m.documents[i])
PlannedIds(plans) == {plans[i].item.id : i \in 1..Len(plans)}

\* C38 as stated: suppressing a wiki-mapped docx child removes that node alone:
\* every document of the tree that is not itself the docx page a wiki document
\* maps to has a plan entry, the pages below a suppressed node included.
C38_Original ==
    called = "returned" /\ "documents" \in DOMAIN args =>
        \A i \in 1..Len(args.documents) :
            LET doc == args.documents[i]
            IN (doc.id \in ManifestTreeIds(args) /\ ~MappedPage(args, doc))
                   => doc.id \in PlannedIds(returned)

\* the entry ended skipped as having no body content
EmptySkip ==
    /\ Len(outcomes') > Len(outcomes)
    /\ Ended.status = "skip"
    /\ exportWarnings'[Len(exportWarnings')].text = "markdown has no body content"
\* the blocks of a titled docx entry gave no line: its Markdown is the title
\* heading alone
TitleHeadingOnly ==
    /\ entry.item.kind = "docx"
    /\ normalizeLine(entry.item.title) # <<>>
    /\ MapHas(markdownCache', entry.item.id)
    /\ MapGet(markdownCache', entry.item.id) = <<"heading">>

\* C36 as stated: when the blocks fetched for an entry during the export give
\* only the title heading, the raw-content endpoint is fetched before the entry
\* is judged to have no exportable content: the entry is not skipped as having
\* no body content without a raw-content request.
C36_Original ==
    [][(Did("getDocxBlocks") /\ TitleHeadingOnly /\ EmptySkip)
          => Did("getDocxRawContent")]_vars

(***************************************************************************)
(* exportMarkdown on manifests of up to three docx documents with no       *)
(* relation between them, titled a or a-2: siblings below the output        *)
(* directory.                                                              *)
(***************************************************************************)
SiblingTitles == {<<"a">>, <<"a", "-", "2">>}
SiblingItems ==
    {Item(resourceId("docx", t), ti, NoObj) : t \in {"a", "b", "c"}, ti \in SiblingTitles}

SiblingsInit ==
    /\ exportPc = "start"
    /\ manifest \in Manifests(SiblingItems, MaxPlanDocuments, {}, 0)
    /\ disk \in {{}, PlanPaths(buildExportPlan(manifest.documents, manifest.tree))}
    /\ plan = <<>>
    /\ markdownCache = <<>>
    /\ exportLog = <<>>
    /\ outcomes = <<>>
    /\ exportWarnings = <<>>
    /\ written = 0
    /\ skipped = 0
    /\ CallIdle
    /\ CrawlIdle
    /\ TreeIdle
    /\ MergeIdle
    /\ ClientIdle

SpecSiblings == SiblingsInit /\ [][ExportNext]_vars

\* the entries counted as written
WrittenEntries == {i \in 1..Len(outcomes) : outcomes[i].status = "success"}

\* C39 as stated: after each plan entry is processed written + skipped is the
\* number of entries processed, the entry incremented exactly one of the two
\* counters, and there is one warning per skipped entry; at return the plan
\* length is written + skipped and every entry counted as written has its file
\* at its target path.
C39_Original ==
    /\ [][Len(outcomes') > Len(outcomes) =>
             /\ Len(outcomes') = Len(outcomes) + 1
             /\ written' + skipped' = Len(outcomes')
             /\ \/ written' = written + 1 /\ skipped' = skipped
                \/ written' = written /\ skipped' = skipped + 1
             /\ Len(exportWarnings') = skipped']_vars
    /\ [](exportPc = "done" =>
             /\ Len(plan) = written + skipped
             /\ Cardinality(WrittenEntries) = written
             /\ \A i \in WrittenEntries : targetPath(plan[i].pathSegments) \in disk)

(***************************************************************************)
(* discoverDocuments on a site deep enough for two paths of different      *)
(* length to one document: the crawl starts at docx a with maxDepth 2 and  *)
(* room for four documents, on a service that supplies no titles.          *)
(***************************************************************************)
MaxSiteDocs == 4

SiteInit ==
    /\ pc = "start"
    /\ rootUrl = MakeUrl(FeishuHost, "docx", "a")
    /\ maxDepth = MaxDepthBound
    /\ maxDocs = MaxSiteDocs
    /\ queue = <<>>
    /\ documents = <<>>
    /\ relations = <<>>
    /\ warnings = <<>>
    /\ sequence = 0
    /\ lastEvent = NoEvent
    /\ lastCalls = NoCalls
    /\ fetchLog = <<>>
    /\ progress = <<>>
    /\ result = NoResult
    /\ TreeIdle
    /\ MergeIdle
    /\ ClientIdle
    /\ LaterIdle

\* no document and no queue entry carries a title
Untitled ==
    /\ \A i \in 1..Len(documents) : documents[i].title = Undef
    /\ \A i \in 1..Len(queue) : queue[i].titleHint = Undef

SiteNext == CrawlNext /\ Untitled'

SpecSite == SiteInit /\ [][SiteNext]_vars

\* the identity key of a queue entry
EntryId(q) ==
    LET r == parseFeishuResource(q.url) IN resourceId(r.kind, r.token)

\* C33 as stated: the depth recorded for an item is the minimum depth over all
\* queue entries created for its identity key: no queue entry for the key of a
\* recorded item has a smaller depth than the one recorded.
C33_Original ==
    \A i \in 1..Len(queue) :
        parseFeishuResource(queue[i].url) # NoResource =>
            \A j \in 1..Len(documents) :
                documents[j].id = EntryId(queue[i]) => documents[j].depth <= queue[i].depth

====
